---- MODULE Spec2Model ----
(***************************************************************************)
(* Model of the swarm orchestration backend:                               *)
(*   - SupervisorAgent.critique_agent_work and ReworkDecision              *)
(*   - CircuitBreaker and SwarmOSRouter.completion                         *)
(*   - Orchestrator.execute_task with the task API handlers                *)
(*     (execute_task_with_persistence, delete_task, get_task)              *)
(*   - DebateEngine.run, Delegator.create_delegation_plan                  *)
(*   - ToolRegistry.execute                                                *)
(*   - MemoryManager.write and RedisMemoryStore.subscribe_to_task          *)
(* Each subsystem has its own specification over the shared variables.     *)
(***************************************************************************)
EXTENDS Integers, Sequences, FiniteSets, TLC

VARIABLES
    \* ---- SupervisorAgent ----
    rework_counts,      \* SupervisorAgent._rework_counts (absent key = 0)
    last_critique,      \* the last critique_agent_work call and what it returned
    \* ---- CircuitBreaker (one instance) ----
    cb,                 \* the breaker's fields
    now,                \* datetime.utcnow(), in seconds
    cb_hist,            \* history of the calls made on the breaker
    \* ---- SwarmOSRouter ----
    circuit_breakers,   \* SwarmOSRouter.circuit_breakers: provider -> breaker
    last_call,          \* the last completion call and how it ended
    environ,            \* os.environ: credential variable -> value
    inflight,           \* per concurrent completion call: where it is suspended
    \* ---- Orchestrator and task API ----
    pc,                 \* position of execute_task_with_persistence
    task,               \* the Task object shared by tasks_store and execute_task
    tasks_store,        \* ids in api.routes.tasks.tasks_store
    postgres_store,     \* "present" or "absent" (app.state.memory.postgres_store)
    db,                 \* durable store: task id -> saved row
    task_agents,        \* Orchestrator.task_agents: task id -> agent list
    plan,               \* number of AgentPlans in the delegation plan
    calls,              \* per agent: state of its coroutine in the current gather
    pending,            \* per agent: value returned by its coroutine
    supervisor_critiques, \* execute_task's local list of latest critiques
    attempt,            \* rework loop index
    del_pc,             \* position of the delete_task handler
    deleted_while,      \* status the task had when delete_task found it
    hist,               \* per agent: history of evaluations and dispatches
    writes,             \* history of the save_task calls on the durable store
    \* ---- DebateEngine ----
    debate_agents,      \* DebateEngine.agents: the ids of the agents, in order
    state,              \* the DebateState of run
    dpc,                \* position of DebateEngine.run
    di,                 \* index of the agent the current loop is at
    dj,                 \* index in other_proposals of _collect_critiques
    dlocal,             \* the local proposals / critiques / votes being built
    rounds_started,     \* number of iterations of run's while loop begun
    \* ---- Delegator ----
    analysis,           \* the dict returned by _analyze_task
    provider_hint,      \* the provider hint of create_delegation_plan
    delegation_plan,    \* the DelegationPlan returned
    deleg_pc,           \* position of create_delegation_plan
    settings,           \* providers whose api key is set in backend.config.settings
    expansion,          \* execution_mode of the QueryExpansion in task.context
    \* ---- ToolRegistry ----
    tools,              \* ToolRegistry.tools: tool name -> registered function
    tool_log,           \* the execute calls made so far and how each ended
    \* ---- MemoryManager and the Redis stream of one task ----
    memory_stores,      \* which of redis, qdrant, postgres the manager holds
    last_write,         \* the last MemoryManager.write call and how it ended
    stream,             \* memory:stream:<task>: the ids of its entries
    subscriber          \* the subscribe_to_task generator of one client

supVars == <<rework_counts, last_critique>>
cbVars == <<cb, now, cb_hist>>
routerVars == <<circuit_breakers, last_call, environ, inflight>>
orchVars == <<pc, task, tasks_store, postgres_store, db, task_agents, plan, calls, pending,
              supervisor_critiques, attempt, del_pc, deleted_while, hist, writes>>
debateVars == <<debate_agents, state, dpc, di, dj, dlocal, rounds_started>>
delegVars == <<analysis, provider_hint, delegation_plan, deleg_pc, settings,
              expansion>>
toolVars == <<tools, tool_log>>
memVars == <<memory_stores, last_write, stream, subscriber>>
nonOrchVars == <<last_critique, cb, now, cb_hist, circuit_breakers, last_call,
                 environ, inflight,
                 debateVars, delegVars, toolVars, memVars>>
vars == <<rework_counts, last_critique, cb, now, cb_hist, circuit_breakers, last_call,
          environ, inflight,
          pc, task, tasks_store, postgres_store, db, task_agents, plan, calls, pending,
          supervisor_critiques, attempt, del_pc, deleted_while, hist, writes,
          debate_agents, state, dpc, di, dj, dlocal, rounds_started,
          analysis, provider_hint, delegation_plan, deleg_pc, settings, expansion,
          tools, tool_log, memory_stores, last_write, stream, subscriber>>

(***************************************************************************)
(* Bounds                                                                  *)
(***************************************************************************)
MaxAgents == 2          \* largest delegation plan explored
MaxSupCount == 4        \* cap on a supervisor rework counter
MaxNow == 130           \* cap on the clock, seconds
MaxFailures == 7        \* cap on a breaker's failure_count
MaxAdmitted == 4        \* cap on the requests admitted in one half_open period
MaxRouterNow == 60      \* cap on the clock in the router specification
MaxSaveFailures == 1    \* save_task calls that raise in one run (flaky store)
MaxDebateAgents == 5    \* longest agent list given to a DebateEngine
MaxRounds == 3          \* largest max_rounds given to DebateEngine.run
MaxConfig == 16         \* longest agent_config in an analysis result
MaxToolCalls == 2       \* execute calls made on one ToolRegistry
MaxCalls == 2           \* completion calls made on one router, concurrently
MaxUpdates == 3         \* updates published to one task's stream

AgentIds == 1..MaxAgents

(***************************************************************************)
(* ReworkDecision.from_evaluation and SupervisorAgent                      *)
(***************************************************************************)
quality_threshold == 7
max_rework_attempts == 2

Scores == {4, 7, 9}
Verdicts == {"", "ACCEPT", "NEEDS_REWORK", "NEEDS_MINOR_IMPROVEMENT", "REJECT"}

\* The evaluation dict produced by _parse_structured_response, reduced to the
\* keys from_evaluation reads.
Evaluations == [overall_score : Scores, verdict : Verdicts,
                rework_required : BOOLEAN, critical : {0, 1}]

\* a decision rule that also reworks a score equal to the threshold
from_evaluation_at_threshold(evaluation, threshold) ==
    IF evaluation.critical > 0 \/ evaluation.verdict = "REJECT"
    THEN "REJECT"
    ELSE IF evaluation.rework_required
            \/ evaluation.overall_score <= threshold
            \/ evaluation.verdict \in {"NEEDS_REWORK", "NEEDS_MINOR_IMPROVEMENT"}
         THEN "REWORK"
         ELSE "ACCEPT"

\* ReworkDecision.from_evaluation: the action of the decision
from_evaluation(evaluation, threshold) ==
    IF evaluation.critical > 0 \/ evaluation.verdict = "REJECT"
    THEN "REJECT"
    ELSE IF evaluation.rework_required
            \/ evaluation.overall_score < threshold
            \/ evaluation.verdict \in {"NEEDS_REWORK", "NEEDS_MINOR_IMPROVEMENT"}
         THEN "REWORK"
         ELSE "ACCEPT"

critique_agent_work_early_accept(counts, agent_id, evaluation) ==
    LET action == from_evaluation(evaluation, quality_threshold)
        bumped == IF action = "REWORK" THEN counts[agent_id] + 1
                  ELSE counts[agent_id]
        final == IF action = "REWORK" /\ bumped >= max_rework_attempts
                 THEN "ACCEPT" ELSE action
    IN [count |-> bumped,
        action |-> action,
        critique |-> [agent_id |-> agent_id,
                      score |-> evaluation.overall_score,
                      decision |-> final,
                      rework_required |-> (final = "REWORK")]]

\* critique_agent_work: the new rework counter of the agent and the critique.
critique_agent_work(counts, agent_id, evaluation) ==
    LET action == from_evaluation(evaluation, quality_threshold)
        bumped == IF action = "REWORK" THEN counts[agent_id] + 1
                  ELSE counts[agent_id]
        final == IF action = "REWORK" /\ bumped > max_rework_attempts
                 THEN "ACCEPT" ELSE action
    IN [count |-> bumped,
        action |-> action,
        critique |-> [agent_id |-> agent_id,
                      score |-> evaluation.overall_score,
                      decision |-> final,
                      rework_required |-> (final = "REWORK")]]

NoCritique == [agent_id |-> 0, score |-> 0, decision |-> "NONE",
               rework_required |-> FALSE]

NoEvaluation == [overall_score |-> 9, verdict |-> "", rework_required |-> FALSE,
                 critical |-> 0]

\* agent_id 0: no call yet
\* action: rework_decision.action as from_evaluation returned it, before the
\* rework bound is applied
NoCall == [agent_id |-> 0, count_before |-> 0, evaluation |-> NoEvaluation,
           action |-> "NONE", critique |-> NoCritique]

SupInit ==
    /\ rework_counts = [a \in AgentIds |-> 0]
    /\ last_critique = NoCall

\* a supervisor that keeps one rework counter for all agents
Critique_shared_counter(a, ev) ==
    /\ rework_counts[a] < MaxSupCount
    /\ rework_counts[1] < MaxSupCount
    /\ LET r == critique_agent_work(rework_counts, 1, ev)
       IN /\ rework_counts' = [rework_counts EXCEPT ![1] = r.count]
          /\ last_critique' = [agent_id |-> a,
                               count_before |-> rework_counts[a],
                               evaluation |-> ev,
                               action |-> r.action,
                               critique |-> [r.critique EXCEPT !.agent_id = a]]
    /\ UNCHANGED <<cbVars, routerVars, orchVars, debateVars, delegVars, toolVars, memVars>>

\* One critique_agent_work call on a free-standing supervisor.
Critique(a, ev) ==
    /\ rework_counts[a] < MaxSupCount
    /\ LET r == critique_agent_work(rework_counts, a, ev)
       IN /\ rework_counts' = [rework_counts EXCEPT ![a] = r.count]
          /\ last_critique' = [agent_id |-> a,
                               count_before |-> rework_counts[a],
                               evaluation |-> ev,
                               action |-> r.action,
                               critique |-> r.critique]
    /\ UNCHANGED <<cbVars, routerVars, orchVars, debateVars, delegVars, toolVars, memVars>>

\* reset_rework_count
ResetReworkCount(a) ==
    /\ rework_counts[a] > 0
    /\ rework_counts' = [rework_counts EXCEPT ![a] = 0]
    /\ UNCHANGED last_critique
    /\ UNCHANGED <<cbVars, routerVars, orchVars, debateVars, delegVars, toolVars, memVars>>

SupNext ==
    \/ \E a \in AgentIds, ev \in Evaluations : Critique(a, ev)
    \/ \E a \in AgentIds : ResetReworkCount(a)

(***************************************************************************)
(* CircuitBreaker                                                          *)
(***************************************************************************)
failure_threshold == 5
recovery_timeout == 60
half_open_max_calls == 3

NoTime == -1            \* last_failure_time is None

NewBreaker == [state |-> "closed", failure_count |-> 0,
               last_failure_time |-> NoTime, half_open_calls |-> 0]

\* allow_request at time t: the breaker afterwards and the returned flag.
allow_request(b, t) ==
    IF b.state = "closed" THEN [breaker |-> b, allowed |-> TRUE]
    ELSE IF b.state = "open" THEN
        IF b.last_failure_time # NoTime
           /\ t - b.last_failure_time >= recovery_timeout
        THEN [breaker |-> [b EXCEPT !.state = "half_open",
                                    !.half_open_calls = 0],
              allowed |-> TRUE]
        ELSE [breaker |-> b, allowed |-> FALSE]
    ELSE IF b.state = "half_open" THEN
        [breaker |-> b, allowed |-> (b.half_open_calls < half_open_max_calls)]
    ELSE [breaker |-> b, allowed |-> FALSE]

record_success_keepcount(b) ==
    IF b.state = "half_open"
    THEN [b EXCEPT !.state = "closed", !.half_open_calls = 0]
    ELSE IF b.state = "closed" THEN [b EXCEPT !.failure_count = 0]
    ELSE b

record_success(b) ==
    IF b.state = "half_open"
    THEN [b EXCEPT !.state = "closed", !.failure_count = 0,
                   !.half_open_calls = 0]
    ELSE IF b.state = "closed" THEN [b EXCEPT !.failure_count = 0]
    ELSE b

\* a breaker that opens one failure late
record_failure_above_threshold(b, t) ==
    LET c == [b EXCEPT !.failure_count = b.failure_count + 1,
                       !.last_failure_time = t]
    IN IF c.state = "half_open"
       THEN [c EXCEPT !.state = "open", !.half_open_calls = 0]
       ELSE IF c.state = "closed" /\ c.failure_count > failure_threshold
            THEN [c EXCEPT !.state = "open"]
            ELSE c

record_failure(b, t) ==
    LET c == [b EXCEPT !.failure_count = b.failure_count + 1,
                       !.last_failure_time = t]
    IN IF c.state = "half_open"
       THEN [c EXCEPT !.state = "open", !.half_open_calls = 0]
       ELSE IF c.state = "closed" /\ c.failure_count >= failure_threshold
            THEN [c EXCEPT !.state = "open"]
            ELSE c

\* History of one breaker: when it last opened, the requests allow_request
\* admitted since it last became half_open or recorded an outcome, and the
\* failures recorded since the last recorded success (counted up to
\* failure_threshold).
NoCbHist == [opened_at |-> NoTime, admitted |-> 0, consecutive |-> 0]

\* the history after a call at time t that took the breaker from before to
\* after; allowed is what allow_request returned
cb_history(h, before, after, call, allowed, t) ==
    [opened_at |-> IF after.state # "open" THEN NoTime
                   ELSE IF before.state # "open" THEN t
                   ELSE h.opened_at,
     admitted |-> IF after.state # "half_open" \/ call # "allow_request" THEN 0
                  ELSE IF allowed THEN h.admitted + 1
                  ELSE h.admitted,
     consecutive |-> IF call = "record_failure"
                     THEN (IF h.consecutive < failure_threshold
                           THEN h.consecutive + 1 ELSE failure_threshold)
                     ELSE IF call = "record_success" THEN 0
                     ELSE h.consecutive]

CBInit ==
    /\ cb = NewBreaker
    /\ now = 0
    /\ cb_hist = NoCbHist

CBAllowRequest ==
    /\ cb_hist.admitted < MaxAdmitted
    /\ cb' = allow_request(cb, now).breaker
    /\ cb_hist' = cb_history(cb_hist, cb, cb', "allow_request",
                             allow_request(cb, now).allowed, now)
    /\ UNCHANGED now
    /\ UNCHANGED <<supVars, routerVars, orchVars, debateVars, delegVars, toolVars, memVars>>

CBRecordSuccess ==
    /\ cb' = record_success(cb)
    /\ cb_hist' = cb_history(cb_hist, cb, cb', "record_success", FALSE, now)
    /\ UNCHANGED now
    /\ UNCHANGED <<supVars, routerVars, orchVars, debateVars, delegVars, toolVars, memVars>>

CBRecordFailure ==
    /\ cb.failure_count < MaxFailures
    /\ cb' = record_failure(cb, now)
    /\ cb_hist' = cb_history(cb_hist, cb, cb', "record_failure", FALSE, now)
    /\ UNCHANGED now
    /\ UNCHANGED <<supVars, routerVars, orchVars, debateVars, delegVars, toolVars, memVars>>

\* The wall clock advances between calls.
Tick ==
    /\ now < MaxNow
    /\ now' = now + 1
    /\ UNCHANGED <<cb, cb_hist>>
    /\ UNCHANGED <<supVars, routerVars, orchVars, debateVars, delegVars, toolVars, memVars>>

CBNext ==
    \/ CBAllowRequest
    \/ CBRecordSuccess
    \/ CBRecordFailure
    \/ Tick

(***************************************************************************)
(* SwarmOSRouter                                                           *)
(***************************************************************************)
\* ModelSettings defaults (get_model_for_provider)
default_google == "gemini/gemini-2.0-flash-exp"
default_anthropic == "claude-3-5-sonnet-20241022"
default_openai == "gpt-4o"
default_openrouter == "openrouter/anthropic/claude-3-sonnet"

\* Model arguments passed to completion.
RequestModels == {"auto", "google", "anthropic", "openai/gpt-4o"}

\* Model arguments of the concurrent calls: every key of model_mapping, ids
\* with a provider prefix, and the id BaseAgent passes for anthropic.
ModelArguments == {"auto", "google", "gemini-flash", "anthropic", "claude-sonnet",
                   "openai", "gpt-4o", "openrouter", "openai/gpt-4o",
                   "gemini/gemini-1.5-flash", "claude-3-5-sonnet-20241022"}

\* Which of the substrings the router tests for occur in a model string.
Tokens(m) ==
    CASE m = "gemini/gemini-2.0-flash-exp" -> {"gemini", "/"}
      [] m = "gemini/gemini-1.5-pro" -> {"gemini", "/"}
      [] m = "gemini/gemini-1.5-flash" -> {"gemini", "/"}
      [] m = "gpt-4o-mini" -> {"gpt"}
      [] m = "claude-3-5-sonnet-20241022" -> {"claude"}
      [] m = "gpt-4o" -> {"gpt"}
      [] m = "openai/gpt-4o" -> {"gpt", "/"}
      [] m = "openrouter/anthropic/claude-3-sonnet" -> {"claude", "openrouter", "/"}
      [] m = "gemini-flash" -> {"gemini"}
      [] m = "claude-sonnet" -> {"claude"}
      [] m = "openrouter" -> {"openrouter"}
      [] OTHER -> {}

\* litellm ids of the cloud models in Router.model_list, in list order, for
\* a deployment with the google and openai keys configured.
cloud_model_list == <<"gemini/gemini-1.5-pro", "gemini/gemini-2.0-flash-exp",
                      "gemini/gemini-1.5-flash", "gpt-4o", "gpt-4o-mini">>

model_mapping(m) ==
    CASE m \in {"google", "gemini-flash"} -> default_google
      [] m \in {"anthropic", "claude-sonnet"} -> default_anthropic
      [] m \in {"openai", "gpt-4o"} -> default_openai
      [] m = "openrouter" -> default_openrouter

\* completion, lines 223-265: the litellm model id the argument resolves to.
resolve_model(m) ==
    LET first == IF m = "auto" THEN cloud_model_list[1]
                 ELSE IF m \in {"google", "gemini-flash", "anthropic",
                                "claude-sonnet", "openai", "gpt-4o",
                                "openrouter"}
                      THEN model_mapping(m)
                      ELSE m
    IN IF "/" \notin Tokens(first) THEN default_google ELSE first

get_provider(m) ==
    IF "claude" \in Tokens(m) THEN "anthropic"
    ELSE IF "gemini" \in Tokens(m) THEN "google"
    ELSE IF "gpt" \in Tokens(m) THEN "openai"
    ELSE IF "local" \in Tokens(m) \/ "ollama" \in Tokens(m) THEN "ollama"
    ELSE IF "openrouter" \in Tokens(m) THEN "openrouter"
    ELSE "unknown"

get_fallback(m) ==
    CASE m = "claude-3-5-sonnet-20241022" -> "gpt-4o"
      [] m = "gpt-4o" -> "claude-3-5-sonnet-20241022"
      [] m = "gemini/gemini-2.0-flash-exp" -> "gpt-4o"
      [] m = "gemini/gemini-1.5-flash" -> "gpt-4o"
      [] OTHER -> IF "gemini" \in Tokens(m) THEN "gpt-4o"
                  ELSE IF "claude" \in Tokens(m) THEN "gpt-4o"
                  ELSE IF "gpt" \in Tokens(m) THEN "gemini/gemini-2.0-flash-exp"
                  ELSE "gpt-4o"

\* What the vendor (litellm_acompletion) does in one completion call:
\* "length_*" is a first response truncated with finish_reason "length",
\* followed by the continuation call's outcome.
VendorOutcomes == {"ok", "fail", "length_ok", "length_fail"}

VendorSucceeds(v) == v \in {"ok", "length_ok"}

NoLastCall == [model_arg |-> "none", primary |-> "none", rejected |-> FALSE,
               called_model |-> "none", called_provider |-> "none",
               fresh_provider |-> FALSE, called_allowed |-> TRUE,
               vendor |-> "none",
               vendor_calls |-> 0, outcome |-> "none", error |-> "none"]

\* The credential variables completion overrides, and the process
\* environment before any call: some variables unset, some already set.
EnvVars == {"GEMINI_API_KEY", "GOOGLE_API_KEY", "ANTHROPIC_API_KEY",
            "OPENAI_API_KEY", "OPENROUTER_API_KEY"}
original_environ ==
    [k \in EnvVars |-> IF k \in {"GOOGLE_API_KEY", "OPENAI_API_KEY"}
                       THEN "preset" ELSE "unset"]

\* the api keys of the deployment cloud_model_list is built for
DeployedKeys == {"google", "openai"}

NoInflight == << >>

RouterIdle ==
    /\ circuit_breakers = << >>
    /\ last_call = NoLastCall
    /\ environ = original_environ
    /\ inflight = NoInflight

RouterInit ==
    /\ RouterIdle
    /\ now = 0

\* SwarmOSRouter.completion(model_arg, ...) with the vendor behaving as v.
Completion(model_arg, v) ==
    LET model0 == resolve_model(model_arg)
        provider0 == get_provider(model0)
        cbs1 == IF provider0 \in DOMAIN circuit_breakers THEN circuit_breakers
                ELSE (provider0 :> NewBreaker) @@ circuit_breakers
        chk == allow_request(cbs1[provider0], now)
        cbs2 == [cbs1 EXCEPT ![provider0] = chk.breaker]
        model == IF chk.allowed THEN model0 ELSE get_fallback(model0)
        provider == IF chk.allowed THEN provider0 ELSE get_provider(model)
        known == provider \in DOMAIN cbs2
        ok == VendorSucceeds(v)
    IN /\ (~ok /\ known) => cbs2[provider].failure_count < MaxFailures
       /\ circuit_breakers' =
            IF ~known THEN cbs2
            ELSE IF ok
                 THEN [cbs2 EXCEPT ![provider] = record_success(cbs2[provider])]
                 ELSE [cbs2 EXCEPT ![provider] = record_failure(cbs2[provider], now)]
       /\ last_call' = [model_arg |-> model_arg,
                        primary |-> provider0,
                        rejected |-> ~chk.allowed,
                        called_model |-> model,
                        called_provider |-> provider,
                        fresh_provider |-> ~known,
                        called_allowed |->
                            (known => allow_request(cbs2[provider], now).allowed),
                        vendor |-> v,
                        vendor_calls |-> IF v \in {"ok", "fail"} THEN 1 ELSE 2,
                        outcome |-> IF ok /\ known THEN "returned" ELSE "raised",
                        error |-> IF ~known THEN "KeyError"
                                  ELSE IF ok THEN "none" ELSE "vendor"]
       /\ UNCHANGED <<now, environ, inflight>>
    /\ UNCHANGED <<supVars, cb, cb_hist, orchVars, debateVars, delegVars, toolVars, memVars>>

RouterTick ==
    /\ now < MaxRouterNow
    /\ now' = now + (recovery_timeout \div 2)
    /\ UNCHANGED <<circuit_breakers, last_call, environ, inflight>>
    /\ UNCHANGED <<supVars, cb, cb_hist, orchVars, debateVars, delegVars, toolVars, memVars>>

RouterNext ==
    \/ \E m \in RequestModels, v \in VendorOutcomes : Completion(m, v)
    \/ RouterTick

(***************************************************************************)
(* Concurrent SwarmOSRouter.completion calls: each call runs up to its     *)
(* await of litellm_acompletion in one step and resumes in another.        *)
(***************************************************************************)
CallIds == 1..MaxCalls

IdleCall == [pc |-> "idle", model_arg |-> "none", model |-> "none",
             provider |-> "none",
             original_env |-> << >>, admitted_by |-> "none",
             vendor_calls |-> 0, partial_content |-> << >>,
             continuation_content |-> << >>, content |-> << >>]

\* message.content of a vendor response, as a sequence of pieces of text
FirstContents == {<< >>, <<"hel">>}
ContinuationContents == {<< >>, <<"lo", "!">>}

\* lines 336 and 348-349: partial_content + "\n" + continuation_content
combine(partial_content, continuation_content) ==
    partial_content \o <<"\n">> \o continuation_content

\* the variables completion overrides for a provider, lines 304-323
credential_vars(provider, keys) ==
    IF provider \notin keys THEN {}
    ELSE CASE provider = "google" -> {"GEMINI_API_KEY", "GOOGLE_API_KEY"}
           [] provider = "anthropic" -> {"ANTHROPIC_API_KEY"}
           [] provider = "openai" -> {"OPENAI_API_KEY"}
           [] provider = "openrouter" -> {"OPENROUTER_API_KEY"}
           [] OTHER -> {}

\* the finally block, lines 353-359
restore(env, original_env) ==
    [k \in EnvVars |-> IF k \in DOMAIN original_env THEN original_env[k]
                       ELSE env[k]]

ConcurrentInit ==
    /\ circuit_breakers = << >>
    /\ last_call = NoLastCall
    /\ environ = original_environ
    /\ inflight = [c \in CallIds |-> IdleCall]
    /\ now = 0

\* completion, lines 202-326: from the call to the first await
CompletionEnter(c, model_arg) ==
    LET model0 == resolve_model(model_arg)
        provider0 == get_provider(model0)
        cbs1 == IF provider0 \in DOMAIN circuit_breakers THEN circuit_breakers
                ELSE (provider0 :> NewBreaker) @@ circuit_breakers
        chk == allow_request(cbs1[provider0], now)
        model == IF chk.allowed THEN model0 ELSE get_fallback(model0)
        provider == IF chk.allowed THEN provider0 ELSE get_provider(model)
        overridden == credential_vars(provider, settings)
    IN /\ inflight[c].pc = "idle"
       /\ circuit_breakers' = [cbs1 EXCEPT ![provider0] = chk.breaker]
       /\ environ' = [k \in EnvVars |-> IF k \in overridden THEN "settings"
                                        ELSE environ[k]]
       /\ inflight' = [inflight EXCEPT ![c] =
                          [pc |-> "vendor", model_arg |-> model_arg,
                           model |-> model,
                           provider |-> provider,
                           original_env |-> [k \in overridden |-> environ[k]],
                           admitted_by |-> IF chk.allowed THEN provider0
                                           ELSE "fallback",
                           vendor_calls |-> 1, partial_content |-> << >>,
                           continuation_content |-> << >>, content |-> << >>]]
       /\ UNCHANGED <<now, last_call>>
    /\ UNCHANGED <<supVars, cb, cb_hist, orchVars, debateVars, delegVars, toolVars, memVars>>

\* completion, lines 353-369: the finally block, then record_success and
\* return response, or record_failure and raise
CompletionExit(c, ok, response) ==
    LET provider == inflight[c].provider
        known == provider \in DOMAIN circuit_breakers
    IN /\ (~ok /\ known) => circuit_breakers[provider].failure_count < MaxFailures
       /\ environ' = restore(environ, inflight[c].original_env)
       /\ circuit_breakers' =
            IF ~known THEN circuit_breakers
            ELSE IF ok
                 THEN [circuit_breakers EXCEPT
                          ![provider] = record_success(circuit_breakers[provider])]
                 ELSE [circuit_breakers EXCEPT
                          ![provider] = record_failure(circuit_breakers[provider], now)]
       /\ inflight' = [inflight EXCEPT
                          ![c].pc = IF ok /\ known THEN "returned" ELSE "raised",
                          ![c].continuation_content =
                              IF inflight[c].pc = "continuation" /\ ok
                              THEN response ELSE @,
                          ![c].content =
                              IF ~(ok /\ known) THEN @
                              ELSE IF inflight[c].pc = "continuation"
                                   THEN combine(inflight[c].partial_content, response)
                                   ELSE response]
       /\ UNCHANGED <<now, last_call>>
    /\ UNCHANGED <<supVars, cb, cb_hist, orchVars, debateVars, delegVars, toolVars, memVars>>

\* the first litellm_acompletion answers: a complete response, an exception,
\* or a response truncated with finish_reason "length"
VendorReturn(c, v, content) ==
    /\ inflight[c].pc = "vendor"
    /\ v \in {"ok", "fail"}
    /\ v = "fail" => content = << >>
    /\ CompletionExit(c, v = "ok", content)

\* lines 329-346: finish_reason is "length", the continuation call is made
VendorTruncated(c, content) ==
    /\ inflight[c].pc = "vendor"
    /\ inflight' = [inflight EXCEPT ![c].pc = "continuation",
                                    ![c].partial_content = content,
                                    ![c].vendor_calls = @ + 1]
    /\ UNCHANGED <<circuit_breakers, last_call, environ, now>>
    /\ UNCHANGED <<supVars, cb, cb_hist, orchVars, debateVars, delegVars, toolVars, memVars>>

\* the continuation call answers: a complete response, a response that is
\* itself truncated (its finish_reason is not looked at), or an exception
ContinuationReturn(c, v, content) ==
    /\ inflight[c].pc = "continuation"
    /\ v \in {"ok", "length", "fail"}
    /\ v = "fail" => content = << >>
    /\ CompletionExit(c, v # "fail", content)

ConcurrentTick ==
    /\ now < MaxRouterNow
    /\ now' = now + (recovery_timeout \div 2)
    /\ UNCHANGED <<circuit_breakers, last_call, environ, inflight>>
    /\ UNCHANGED <<supVars, cb, cb_hist, orchVars, debateVars, delegVars, toolVars, memVars>>

ConcurrentNext ==
    \/ \E c \in CallIds, m \in ModelArguments : CompletionEnter(c, m)
    \/ \E c \in CallIds, v \in {"ok", "fail"}, content \in FirstContents :
          VendorReturn(c, v, content)
    \/ \E c \in CallIds, content \in FirstContents : VendorTruncated(c, content)
    \/ \E c \in CallIds, v \in {"ok", "length", "fail"},
          content \in ContinuationContents : ContinuationReturn(c, v, content)
    \/ ConcurrentTick

(***************************************************************************)
(* Task, SubTask and the durable store                                     *)
(***************************************************************************)
TaskId == "t1"
SupervisorId == 0       \* the agent id of the task's SupervisorAgent
NoProgress == -1        \* Task.progress is None
MAX_REWORK_ATTEMPTS == 2

\* Task(...) as built by Orchestrator.create_task; progress in percent.
NewTask == [id |-> TaskId, status |-> "pending", progress |-> NoProgress,
            agents_count |-> 0, completed_at |-> "null", error |-> "null",
            subtasks |-> << >>, has_validation |-> FALSE, has_result |-> FALSE,
            execution_strategy |-> "none", debate_state |-> "null"]

\* SubTask(...).dict(): the model has no rework_count field, the orchestrator
\* reads it with .get("rework_count", 0).
NewSubTask(task_id, agent_id) ==
    [parent_task_id |-> task_id, agent_id |-> agent_id, status |-> "pending",
     rework_count |-> 0, has_result |-> FALSE]

Min(a, b) == IF a < b THEN a ELSE b

\* PostgresMemoryStore.save_task: upsert of the row on id.
save_task(rows, t) == (t.id :> t) @@ rows

\* PostgresMemoryStore.delete_task
store_delete_task(rows, id) == [k \in (DOMAIN rows) \ {id} |-> rows[k]]

\* count and last_status: number of save_task calls that succeeded and the
\* status in the last of them; at: the positions of execute_task they were
\* made from; swallowed: calls that raised.
NoWrites == [count |-> 0, last_status |-> "none", at |-> {}, swallowed |-> 0]

\* Orchestrator._save_checkpoint(t) and save_task_to_db(t, postgres_store):
\* nothing without a store; with a store save_task(t) is called, and the
\* exception of a failing call is caught and printed, never re-raised.
SaveCheckpoint(t) ==
    IF postgres_store = "absent" THEN db' = db /\ writes' = writes
    ELSE \/ /\ db' = save_task(db, t)
            /\ writes' = [writes EXCEPT !.count = @ + 1,
                                        !.last_status = t.status,
                                        !.at = @ \cup {pc}]
         \/ /\ postgres_store = "flaky"
            /\ writes.swallowed < MaxSaveFailures
            /\ db' = db
            /\ writes' = [writes EXCEPT !.swallowed = @ + 1]

\* HTTPException(404, "Task not found")
NotFound == [NewTask EXCEPT !.id = "404", !.status = "404"]

\* get_task handler: the task served (from the cache, else from the store),
\* or the 404 response.
get_task(id) ==
    IF id \in tasks_store THEN task
    ELSE IF postgres_store # "absent" /\ id \in DOMAIN db THEN db[id]
    ELSE NotFound

(***************************************************************************)
(* Orchestrator.execute_task, run by execute_task_with_persistence         *)
(***************************************************************************)
NoHist == [all_s3 |-> TRUE, critiques |-> 0, dispatches |-> 0,
           last_decision |-> "NONE"]

\* Evaluations the supervisor's model call yields in the pipeline: an
\* acceptable one, the score-4 rework of scenario S3, and a rejection.
EvAccept == [overall_score |-> 9, verdict |-> "ACCEPT",
             rework_required |-> FALSE, critical |-> 0]
EvS3 == [overall_score |-> 4, verdict |-> "NEEDS_REWORK",
         rework_required |-> TRUE, critical |-> 0]
EvReject == [overall_score |-> 4, verdict |-> "REJECT",
             rework_required |-> TRUE, critical |-> 1]
PipelineEvaluations == {EvAccept, EvS3, EvReject}

OrchInit ==
    /\ pc = "none"
    /\ task = NewTask
    /\ tasks_store = {}
    /\ postgres_store \in {"present", "absent", "flaky"}
    /\ db = << >>
    /\ task_agents = << >>
    /\ plan = 0
    /\ calls = [a \in AgentIds |-> "idle"]
    /\ pending = [a \in AgentIds |-> NoCritique]
    /\ supervisor_critiques = << >>
    /\ attempt = 0
    /\ del_pc = "idle"
    /\ deleted_while = "none"
    /\ hist = [a \in AgentIds |-> NoHist]
    /\ writes = NoWrites
    /\ rework_counts = [a \in AgentIds |-> 0]

\* POST /api/tasks: create_task stores the task, saves it and queues
\* execute_task_with_persistence as a background job.
CreateTask ==
    /\ pc = "none"
    /\ tasks_store' = tasks_store \cup {TaskId}
    /\ SaveCheckpoint(task)
    /\ pc' = "pending"
    /\ UNCHANGED <<task, postgres_store, task_agents, plan, calls, pending,
                   supervisor_critiques, attempt, del_pc, deleted_while, hist, rework_counts>>
    /\ UNCHANGED nonOrchVars

Begin_checkpoint_raises ==
    /\ pc = "pending"
    /\ SaveCheckpoint([task EXCEPT !.status = "in_progress"])
    /\ IF writes'.swallowed > writes.swallowed
       THEN task' = [task EXCEPT !.status = "failed",
                                 !.error = "save_task error"]
            /\ pc' = "final_save"
       ELSE task' = [task EXCEPT !.status = "in_progress"]
            /\ pc' = "delegate"
    /\ UNCHANGED <<tasks_store, postgres_store, task_agents, plan, calls,
                   pending, supervisor_critiques, attempt, del_pc, deleted_while, hist,
                   rework_counts>>
    /\ UNCHANGED nonOrchVars

\* execute_task line 70-71
Begin ==
    /\ pc = "pending"
    /\ task' = [task EXCEPT !.status = "in_progress"]
    /\ SaveCheckpoint(task')
    /\ pc' = "delegate"
    /\ UNCHANGED <<tasks_store, postgres_store, task_agents, plan, calls,
                   pending, supervisor_critiques, attempt, del_pc, deleted_while, hist,
                   rework_counts>>
    /\ UNCHANGED nonOrchVars

Failed_error_only(t) == [t EXCEPT !.error = "message"]

\* the except clause of execute_task, lines 316-318; "message" is str(e)
\* of the exception a step of the pipeline raised
Failed(t) == [t EXCEPT !.status = "failed", !.error = "message"]

\* Delegator._determine_strategy
determine_strategy(agents_needed, an) ==
    IF Len(agents_needed) = 1 THEN "single"
    ELSE IF an.requires_debate THEN "debate"
    ELSE "sequential"

\* lines 74-84: create_delegation_plan returns a plan of n agents, made
\* from an analysis whose requires_debate is as given; the plan's
\* execution_strategy goes into task.context
Delegate(n, requires_debate) ==
    /\ pc = "delegate"
    /\ plan' = n
    /\ task' = [task EXCEPT !.execution_strategy =
                    determine_strategy([i \in 1..n |-> i],
                                       [requires_debate |-> requires_debate])]
    /\ SaveCheckpoint(task')
    /\ pc' = "materialize"
    /\ UNCHANGED <<tasks_store, postgres_store, task_agents, calls,
                   pending, supervisor_critiques, attempt, del_pc, deleted_while, hist,
                   rework_counts>>
    /\ UNCHANGED nonOrchVars

\* create_delegation_plan raises
DelegateRaise ==
    /\ pc = "delegate"
    /\ task' = Failed(task)
    /\ pc' = "final_save"
    /\ UNCHANGED <<tasks_store, postgres_store, db, task_agents, plan, calls,
                   pending, supervisor_critiques, attempt, del_pc, deleted_while, hist,
                   rework_counts>>
    /\ UNCHANGED writes
    /\ UNCHANGED nonOrchVars

\* line 87: _create_task_agents raises
MaterializeRaise ==
    /\ pc = "materialize"
    /\ task' = Failed(task)
    /\ pc' = "final_save"
    /\ UNCHANGED <<tasks_store, postgres_store, db, task_agents, plan, calls,
                   pending, supervisor_critiques, attempt, del_pc, deleted_while, hist,
                   rework_counts>>
    /\ UNCHANGED writes
    /\ UNCHANGED nonOrchVars

\* _create_task_agents: one agent per AgentPlan; agent ids are 1..n.
create_task_agents(n) == [i \in 1..n |-> i]

\* lines 104-116: zip(task_agents, delegation_plan.agents_needed)
make_subtasks(agents, n, task_id) ==
    [i \in 1..Min(Len(agents), n) |-> NewSubTask(task_id, agents[i])]

\* zip(task_agents, task.subtasks) at line 170: the number of coroutines
\* gathered, which is len(results).
NumResults == Min(Len(task_agents[TaskId]), Len(task.subtasks))

Slots == 1..NumResults

\* lines 86-117. The local task_agents is the list object stored in
\* self.task_agents[task.id], so the appended supervisor is in both.
Materialize ==
    /\ pc = "materialize"
    /\ LET agents == Append(create_task_agents(plan), SupervisorId)
       IN /\ task_agents' = (TaskId :> agents) @@ task_agents
          /\ task' = [task EXCEPT
                        !.subtasks = make_subtasks(agents, plan, task.id)]
    /\ rework_counts' = [a \in AgentIds |-> 0]
    /\ SaveCheckpoint(task')
    /\ pc' = "start_agents"
    /\ UNCHANGED <<tasks_store, postgres_store, plan, calls, pending,
                   supervisor_critiques, attempt, del_pc, deleted_while, hist>>
    /\ UNCHANGED nonOrchVars

\* lines 119-172: memory.write, progress 0.1, checkpoint, then gather starts
\* every execute_agent coroutine, each marking its subtask in_progress.
StartAgents ==
    /\ pc = "start_agents"
    /\ task' = [task EXCEPT
                  !.progress = 10,
                  !.subtasks = [i \in DOMAIN task.subtasks |->
                        IF i \in Slots
                        THEN [task.subtasks[i] EXCEPT !.status = "in_progress"]
                        ELSE task.subtasks[i]]]
    /\ SaveCheckpoint([task EXCEPT !.progress = 10])
    /\ calls' = [a \in AgentIds |-> IF a \in Slots THEN "run_agent" ELSE "idle"]
    /\ pc' = "agents"
    /\ UNCHANGED <<tasks_store, postgres_store, task_agents, plan, pending,
                   supervisor_critiques, attempt, del_pc, deleted_while, hist, rework_counts>>
    /\ UNCHANGED nonOrchVars

\* execute_agent(i, ...) lines 155-162: agent.process returned
AgentReturn(i) ==
    /\ calls[i] = "run_agent"
    /\ task' = [task EXCEPT !.subtasks[i].status = "completed",
                            !.subtasks[i].has_result = TRUE]
    /\ calls' = [calls EXCEPT ![i] = "done"]
    /\ UNCHANGED <<pc, tasks_store, postgres_store, db, task_agents, plan,
                   pending, supervisor_critiques, attempt, del_pc, deleted_while, hist,
                   rework_counts>>
    /\ UNCHANGED writes
    /\ UNCHANGED nonOrchVars

\* A gathered coroutine raises. asyncio.gather hands the first exception to
\* execute_task, whose except clause marks the task failed; the other
\* coroutines keep running.
CallRaise(i, kind, at) ==
    /\ calls[i] = kind
    /\ calls' = [calls EXCEPT ![i] = "raised"]
    /\ IF pc = at
       THEN task' = Failed(task) /\ pc' = "final_save"
       ELSE UNCHANGED <<task, pc>>
    /\ UNCHANGED <<tasks_store, postgres_store, db, task_agents, plan, pending,
                   supervisor_critiques, attempt, del_pc, deleted_while, hist, rework_counts>>
    /\ UNCHANGED writes
    /\ UNCHANGED nonOrchVars

AgentRaise(i) == CallRaise(i, "run_agent", "agents")

\* a gather that hands over as soon as one coroutine is done
AgentsGathered_first_completed ==
    /\ pc = "agents"
    /\ \E i \in Slots : calls[i] = "done"
    /\ task' = [task EXCEPT !.progress = 50]
    /\ SaveCheckpoint(task')
    /\ calls' = [a \in AgentIds |-> IF a \in Slots THEN "run_critique" ELSE "idle"]
    /\ pc' = "critiques"
    /\ UNCHANGED <<tasks_store, postgres_store, task_agents, plan, pending,
                   supervisor_critiques, attempt, del_pc, deleted_while, hist, rework_counts>>
    /\ UNCHANGED nonOrchVars

\* lines 172-195: results collected, progress 0.5, checkpoint, critiques start
AgentsGathered ==
    /\ pc = "agents"
    /\ \A i \in Slots : calls[i] = "done"
    /\ task' = [task EXCEPT !.progress = 50]
    /\ SaveCheckpoint(task')
    /\ calls' = [a \in AgentIds |-> IF a \in Slots THEN "run_critique" ELSE "idle"]
    /\ pc' = "critiques"
    /\ UNCHANGED <<tasks_store, postgres_store, task_agents, plan, pending,
                   supervisor_critiques, attempt, del_pc, deleted_while, hist, rework_counts>>
    /\ UNCHANGED nonOrchVars

\* critique_agent(i, ...): supervisor.critique_agent_work returned, the
\* model call having produced the evaluation ev.
CritiqueReturn(i, kind, ev) ==
    /\ calls[i] = kind
    /\ LET agent_id == task_agents[TaskId][i]
           r == critique_agent_work(rework_counts, agent_id, ev)
       IN /\ rework_counts' = [rework_counts EXCEPT ![agent_id] = r.count]
          /\ pending' = [pending EXCEPT ![i] = r.critique]
          /\ hist' = [hist EXCEPT
                        ![i].all_s3 = @ /\ ev = EvS3,
                        ![i].critiques = @ + 1,
                        ![i].last_decision = r.critique.decision]
    /\ calls' = [calls EXCEPT ![i] = "done"]
    /\ UNCHANGED <<pc, task, tasks_store, postgres_store, db, task_agents,
                   plan, supervisor_critiques, attempt, del_pc, deleted_while>>
    /\ UNCHANGED writes
    /\ UNCHANGED nonOrchVars

FirstCritiqueReturn(i, ev) == CritiqueReturn(i, "run_critique", ev)

FirstCritiqueRaise(i) == CallRaise(i, "run_critique", "critiques")

\* lines 195-198
CritiquesGathered ==
    /\ pc = "critiques"
    /\ \A i \in Slots : calls[i] = "done"
    /\ supervisor_critiques' = [i \in Slots |-> pending[i]]
    /\ task' = [task EXCEPT !.progress = 60]
    /\ SaveCheckpoint(task')
    /\ calls' = [a \in AgentIds |-> "idle"]
    /\ attempt' = 0
    /\ pc' = "rework_loop"
    /\ UNCHANGED <<tasks_store, postgres_store, task_agents, plan, pending,
                   del_pc, deleted_while, hist, rework_counts>>
    /\ UNCHANGED nonOrchVars

\* lines 206-213: does this critique send its agent to rework?
needs_rework(critique) ==
    \/ critique.rework_required
    \/ critique.decision \in {"REJECT", "REVISE", "NEEDS_REWORK"}

agents_to_rework ==
    {i \in DOMAIN supervisor_critiques : needs_rework(supervisor_critiques[i])}

ReworkDispatch_unbounded ==
    /\ pc = "rework_loop"
    /\ agents_to_rework # {}
    /\ calls' = [a \in AgentIds |->
                    IF a \in agents_to_rework THEN "run_rework" ELSE "idle"]
    /\ hist' = [a \in AgentIds |->
                    IF a \in agents_to_rework
                    THEN [hist[a] EXCEPT !.dispatches = @ + 1]
                    ELSE hist[a]]
    /\ pc' = "reworking"
    /\ UNCHANGED <<task, tasks_store, postgres_store, db, task_agents, plan,
                   pending, supervisor_critiques, attempt, del_pc,
                   deleted_while, rework_counts>>
    /\ UNCHANGED writes
    /\ UNCHANGED nonOrchVars

\* lines 204-255: a loop iteration that finds agents to rework dispatches
\* rework_agent for each of them.
ReworkDispatch ==
    /\ pc = "rework_loop"
    /\ attempt < MAX_REWORK_ATTEMPTS
    /\ agents_to_rework # {}
    /\ calls' = [a \in AgentIds |->
                    IF a \in agents_to_rework THEN "run_rework" ELSE "idle"]
    /\ hist' = [a \in AgentIds |->
                    IF a \in agents_to_rework
                    THEN [hist[a] EXCEPT !.dispatches = @ + 1]
                    ELSE hist[a]]
    /\ pc' = "reworking"
    /\ UNCHANGED <<task, tasks_store, postgres_store, db, task_agents, plan,
                   pending, supervisor_critiques, attempt, del_pc, deleted_while,
                   rework_counts>>
    /\ UNCHANGED writes
    /\ UNCHANGED nonOrchVars

\* rework_agent(idx, ...) lines 242-249
ReworkReturn(i) ==
    /\ calls[i] = "run_rework"
    /\ task' = [task EXCEPT !.subtasks[i].has_result = TRUE,
                            !.subtasks[i].rework_count = @ + 1]
    /\ calls' = [calls EXCEPT ![i] = "done"]
    /\ UNCHANGED <<pc, tasks_store, postgres_store, db, task_agents, plan,
                   pending, supervisor_critiques, attempt, del_pc, deleted_while, hist,
                   rework_counts>>
    /\ UNCHANGED writes
    /\ UNCHANGED nonOrchVars

ReworkRaise(i) == CallRaise(i, "run_rework", "reworking")

\* lines 255-267: reworks gathered, the reworked agents are re-critiqued
ReworksGathered ==
    /\ pc = "reworking"
    /\ \A i \in AgentIds : calls[i] \in {"idle", "done"}
    /\ calls' = [a \in AgentIds |->
                    IF calls[a] = "done" THEN "run_recritique" ELSE "idle"]
    /\ pc' = "recritiques"
    /\ UNCHANGED <<task, tasks_store, postgres_store, db, task_agents, plan,
                   pending, supervisor_critiques, attempt, del_pc, deleted_while, hist,
                   rework_counts>>
    /\ UNCHANGED writes
    /\ UNCHANGED nonOrchVars

RecritiqueReturn(i, ev) == CritiqueReturn(i, "run_recritique", ev)

RecritiqueRaise(i) == CallRaise(i, "run_recritique", "recritiques")

\* lines 267-274: critiques replaced, progress, checkpoint, next iteration
RecritiquesGathered ==
    /\ pc = "recritiques"
    /\ \A i \in AgentIds : calls[i] \in {"idle", "done"}
    /\ supervisor_critiques' = [i \in DOMAIN supervisor_critiques |->
            IF calls[i] = "done" THEN pending[i] ELSE supervisor_critiques[i]]
    /\ task' = [task EXCEPT
            !.progress = 60 + (10 * (attempt + 1)) \div MAX_REWORK_ATTEMPTS]
    /\ SaveCheckpoint(task')
    /\ calls' = [a \in AgentIds |-> "idle"]
    /\ attempt' = attempt + 1
    /\ pc' = "rework_loop"
    /\ UNCHANGED <<tasks_store, postgres_store, task_agents, plan, pending,
                   del_pc, deleted_while, hist, rework_counts>>
    /\ UNCHANGED nonOrchVars

\* a rework loop of one iteration
ReworkLoopExit_after_one ==
    /\ pc = "rework_loop"
    /\ (attempt >= 1 \/ agents_to_rework = {})
    /\ task' = [task EXCEPT !.progress = 70]
    /\ SaveCheckpoint(task')
    /\ pc' = "validate"
    /\ UNCHANGED <<tasks_store, postgres_store, task_agents, plan, calls,
                   pending, supervisor_critiques, attempt, del_pc, deleted_while, hist,
                   rework_counts>>
    /\ UNCHANGED nonOrchVars

\* lines 215-216 and 276-277: the loop ends (nothing to rework, or the range
\* is exhausted); progress 0.7, checkpoint.
ReworkLoopExit ==
    /\ pc = "rework_loop"
    /\ (attempt >= MAX_REWORK_ATTEMPTS \/ agents_to_rework = {})
    /\ task' = [task EXCEPT !.progress = 70]
    /\ SaveCheckpoint(task')
    /\ pc' = "validate"
    /\ UNCHANGED <<tasks_store, postgres_store, task_agents, plan, calls,
                   pending, supervisor_critiques, attempt, del_pc, deleted_while, hist,
                   rework_counts>>
    /\ UNCHANGED nonOrchVars

\* lines 281-283
ToValidating ==
    /\ pc = "validate"
    /\ task' = [task EXCEPT !.status = "validating", !.progress = 80]
    /\ SaveCheckpoint(task')
    /\ pc' = "attach_validation"
    /\ UNCHANGED <<tasks_store, postgres_store, task_agents, plan, calls,
                   pending, supervisor_critiques, attempt, del_pc, deleted_while, hist,
                   rework_counts>>
    /\ UNCHANGED nonOrchVars

\* lines 286-297
AttachValidation ==
    /\ pc = "attach_validation"
    /\ task' = [task EXCEPT !.has_validation = TRUE, !.progress = 90]
    /\ SaveCheckpoint(task')
    /\ pc' = "synthesize"
    /\ UNCHANGED <<tasks_store, postgres_store, task_agents, plan, calls,
                   pending, supervisor_critiques, attempt, del_pc, deleted_while, hist,
                   rework_counts>>
    /\ UNCHANGED nonOrchVars

\* line 312: task.agents_count = len(results)
agents_count_with_supervisor(n_results, agents) == Len(agents)

agents_count_of(n_results, agents) == n_results

\* lines 300-314: the final report (its failure is caught inside
\* _synthesize_final_report), the result, the terminal fields, checkpoint.
Complete ==
    /\ pc = "synthesize"
    /\ task' = [task EXCEPT
                  !.has_result = TRUE,
                  !.status = "completed",
                  !.agents_count = agents_count_of(NumResults,
                                                   task_agents[TaskId]),
                  !.progress = 100]
    /\ SaveCheckpoint(task')
    /\ pc' = "final_save"
    /\ UNCHANGED <<tasks_store, postgres_store, task_agents, plan, calls,
                   pending, supervisor_critiques, attempt, del_pc, deleted_while, hist,
                   rework_counts>>
    /\ UNCHANGED nonOrchVars

FinalSave_no_save ==
    /\ pc = "final_save"
    /\ pc' = "finished"
    /\ UNCHANGED <<task, tasks_store, postgres_store, db, task_agents, plan, calls,
                   pending, supervisor_critiques, attempt, del_pc, deleted_while, hist,
                   rework_counts>>
    /\ UNCHANGED writes
    /\ UNCHANGED nonOrchVars

\* execute_task_with_persistence, the finally clause: save_task_to_db
FinalSave ==
    /\ pc = "final_save"
    /\ SaveCheckpoint(task)
    /\ pc' = "finished"
    /\ UNCHANGED <<task, tasks_store, postgres_store, task_agents, plan, calls,
                   pending, supervisor_critiques, attempt, del_pc, deleted_while, hist,
                   rework_counts>>
    /\ UNCHANGED nonOrchVars

(***************************************************************************)
(* DELETE /api/tasks/{id}                                                  *)
(***************************************************************************)
RunningStatuses == {"in_progress", "debating", "validating"}

DeleteTask_any_status ==
    /\ del_pc = "idle"
    /\ get_task(TaskId) # NotFound
    /\ IF TaskId \in tasks_store
       THEN task' = [task EXCEPT !.status = "cancelled"]
       ELSE task' = task
    /\ tasks_store' = tasks_store \ {TaskId}
    /\ del_pc' = "store_delete"
    /\ deleted_while' = IF TaskId \in tasks_store THEN task.status ELSE "stored"
    /\ UNCHANGED <<pc, postgres_store, db, task_agents, plan, calls, pending,
                   supervisor_critiques, attempt, hist, rework_counts>>
    /\ UNCHANGED writes
    /\ UNCHANGED nonOrchVars

\* delete_task lines 349-371, up to the awaited store delete: the task is
\* found (in memory, else by a row of the store), a running task is marked
\* cancelled, the cache entry is removed.
DeleteTask ==
    /\ del_pc = "idle"
    /\ get_task(TaskId) # NotFound
    /\ IF TaskId \in tasks_store /\ task.status \in RunningStatuses
       THEN task' = [task EXCEPT !.status = "cancelled"]
       ELSE task' = task
    /\ tasks_store' = tasks_store \ {TaskId}
    /\ del_pc' = "store_delete"
    /\ deleted_while' = IF TaskId \in tasks_store THEN task.status ELSE "stored"
    /\ UNCHANGED <<pc, postgres_store, db, task_agents, plan, calls, pending,
                   supervisor_critiques, attempt, hist, rework_counts>>
    /\ UNCHANGED writes
    /\ UNCHANGED nonOrchVars

\* delete_task lines 374-380: the row is removed, the handler returns
DeleteTaskStore ==
    /\ del_pc = "store_delete"
    /\ IF postgres_store = "absent" THEN db' = db
       ELSE \/ db' = store_delete_task(db, TaskId)
            \/ postgres_store = "flaky" /\ db' = db
    /\ del_pc' = "returned"
    /\ UNCHANGED <<deleted_while, pc, task, tasks_store, postgres_store, task_agents, plan,
                   calls, pending, supervisor_critiques, attempt, hist,
                   rework_counts>>
    /\ UNCHANGED writes
    /\ UNCHANGED nonOrchVars

Next ==
    \/ CreateTask
    \/ Begin
    \/ \E n \in 1..MaxAgents, requires_debate \in BOOLEAN :
          Delegate(n, requires_debate)
    \/ DelegateRaise
    \/ Materialize
    \/ MaterializeRaise
    \/ StartAgents
    \/ \E i \in AgentIds : AgentReturn(i)
    \/ \E i \in AgentIds : AgentRaise(i)
    \/ AgentsGathered
    \/ \E i \in AgentIds, ev \in PipelineEvaluations : FirstCritiqueReturn(i, ev)
    \/ \E i \in AgentIds : FirstCritiqueRaise(i)
    \/ CritiquesGathered
    \/ ReworkDispatch
    \/ \E i \in AgentIds : ReworkReturn(i)
    \/ \E i \in AgentIds : ReworkRaise(i)
    \/ ReworksGathered
    \/ \E i \in AgentIds, ev \in PipelineEvaluations : RecritiqueReturn(i, ev)
    \/ \E i \in AgentIds : RecritiqueRaise(i)
    \/ RecritiquesGathered
    \/ ReworkLoopExit
    \/ ToValidating
    \/ AttachValidation
    \/ Complete
    \/ FinalSave
    \/ DeleteTask
    \/ DeleteTaskStore

(***************************************************************************)
(* DebateEngine, DebateScorer and ConvergenceChecker                       *)
(* Fixed point: scores and weights in 1/10000, critique scores in tenths,  *)
(* confidence in percent, the convergence threshold in tenths.             *)
(***************************************************************************)
weights == [votes |-> 3500, critiques |-> 3500, confidence |-> 1500,
            evidence |-> 1500]
convergence_threshold == 8
score_margin_threshold == 3000
proposal_confidence == 70       \* BaseAgent.generate_proposal: confidence=0.7
critique_score == 50            \* BaseAgent.critique_proposal: "score": 5.0
NoWinner == 0                   \* DebateState.winner is None

Max(a, b) == IF a > b THEN a ELSE b

\* DebateState(...) as built at the start of run
NewDebateState(max_rounds) ==
    [proposals |-> << >>, critiques |-> << >>, rebuttals |-> << >>,
     votes |-> << >>, scores |-> << >>, round |-> 1,
     max_rounds |-> max_rounds, phase |-> "proposal", winner |-> NoWinner,
     converged |-> FALSE]

\* [p for p in state.proposals if p.get("round") == state.round]
current_proposals(st) ==
    SelectSeq(st.proposals, LAMBDA p : p.round = st.round)

other_proposals_with_own(st, agent_id) == current_proposals(st)

\* [p for p in current_proposals if p.get("agent_id") != agent.id]
other_proposals(st, agent_id) ==
    SelectSeq(current_proposals(st), LAMBDA p : p.agent_id # agent_id)

\* BaseAgent.vote: selected_id = proposals[0].get("agent_id", "")
vote(proposals) == proposals[1].agent_id

count_votes_once(votes) ==
    [p \in {votes[a] : a \in DOMAIN votes} |-> 1]

\* DebateScorer.count_votes
count_votes(votes) ==
    [p \in {votes[a] : a \in DOMAIN votes} |->
        Cardinality({a \in DOMAIN votes : votes[a] = p})]

RECURSIVE SumOver(_, _)
SumOver(f, S) ==
    IF S = {} THEN 0
    ELSE LET x == CHOOSE y \in S : TRUE
         IN f[x] + SumOver(f, S \ {x})

\* DebateScorer.calculate_weighted_score
calculate_weighted_score(proposal, w, total_agents) ==
    LET score == (w.votes * proposal.votes) \div total_agents
                 + (w.critiques * proposal.critique_avg) \div 100
                 + (w.confidence * proposal.confidence) \div 100
                 + (w.evidence * Min(proposal.evidence_count * 20, 100))
                       \div 100
    IN Min(Max(score, 0), 10000)

\* DebateEngine._calculate_scores: the scores dict, proposal id -> score
calculate_scores(st, total_agents) ==
    LET cur == current_proposals(st)
        vote_counts == count_votes(st.votes)
        data(p) ==
            LET pid == p.agent_id
                cs == SelectSeq(st.critiques,
                        LAMBDA c : c.target_proposal_id = pid
                                   /\ c.round = st.round)
            IN [votes |-> IF pid \in DOMAIN vote_counts
                          THEN vote_counts[pid] ELSE 0,
                critique_avg |-> IF Len(cs) > 0
                                 THEN SumOver([k \in DOMAIN cs |-> cs[k].score],
                                              DOMAIN cs) \div Len(cs)
                                 ELSE 50,
                confidence |-> p.confidence,
                evidence_count |-> p.evidence_count]
    IN [pid \in {cur[k].agent_id : k \in DOMAIN cur} |->
          LET p == cur[CHOOSE k \in DOMAIN cur :
                          /\ cur[k].agent_id = pid
                          /\ \A l \in DOMAIN cur :
                                cur[l].agent_id = pid => l <= k]
          IN calculate_weighted_score(data(p), weights, total_agents)]

\* sorted(scores.values(), reverse=True)[0] - [1], for more than one score
score_margin(scores) ==
    LET D == DOMAIN scores
        first == CHOOSE d \in D : \A e \in D : scores[e] <= scores[d]
        rest == D \ {first}
        second == CHOOSE d \in rest : \A e \in rest : scores[e] <= scores[d]
    IN scores[first] - scores[second]

check_without_max_rounds(round_num, max_rounds, votes, scores) ==
    LET values == {votes[a] : a \in DOMAIN votes}
        vote_counts == [p \in values |->
                           Cardinality({a \in DOMAIN votes : votes[a] = p})]
        total_votes == Cardinality(DOMAIN votes)
    IN \/ /\ values # {}
          /\ \E p \in values :
                vote_counts[p] * 10 >= convergence_threshold * total_votes
       \/ /\ Cardinality(DOMAIN scores) > 1
          /\ score_margin(scores) > score_margin_threshold

\* ConvergenceChecker.check
check(round_num, max_rounds, votes, scores) ==
    LET values == {votes[a] : a \in DOMAIN votes}
        vote_counts == [p \in values |->
                           Cardinality({a \in DOMAIN votes : votes[a] = p})]
        total_votes == Cardinality(DOMAIN votes)
    IN \/ round_num >= max_rounds
       \/ /\ values # {}
          /\ \E p \in values :
                vote_counts[p] * 10 >= convergence_threshold * total_votes
       \/ /\ Cardinality(DOMAIN scores) > 1
          /\ score_margin(scores) > score_margin_threshold

select_winner_lowest(scores) ==
    CHOOSE d \in DOMAIN scores :
        \A e \in DOMAIN scores :
            scores[e] > scores[d] \/ (scores[e] = scores[d] /\ d <= e)

\* max(state.scores.items(), key=lambda x: x[1])[0]: the first proposal, in
\* insertion (agent) order, among those with the highest score
select_winner(scores) ==
    CHOOSE d \in DOMAIN scores :
        \A e \in DOMAIN scores :
            scores[e] < scores[d] \/ (scores[e] = scores[d] /\ d <= e)

DebateInit ==
    /\ debate_agents = << >>
    /\ state = NewDebateState(1)
    /\ dpc = "idle"
    /\ di = 1
    /\ dj = 1
    /\ dlocal = << >>
    /\ rounds_started = 0

debateRest == <<supVars, cbVars, routerVars, orchVars, delegVars, toolVars, memVars>>

\* DebateEngine(agents, config).run(topic, task_id, max_rounds)
Run(n, max_rounds) ==
    /\ dpc = "idle"
    /\ debate_agents' = [i \in 1..n |-> i]
    /\ state' = NewDebateState(max_rounds)
    /\ dpc' = "loop"
    /\ UNCHANGED <<di, dj, dlocal, rounds_started>>
    /\ UNCHANGED debateRest

\* the while test of run holds: _collect_proposals starts
LoopEnter ==
    /\ dpc = "loop"
    /\ state.round <= state.max_rounds /\ ~state.converged
    /\ dpc' = "proposals"
    /\ di' = 1
    /\ dlocal' = << >>
    /\ rounds_started' = rounds_started + 1
    /\ UNCHANGED <<debate_agents, state, dj>>
    /\ UNCHANGED debateRest

\* _collect_proposals, one agent.generate_proposal call. The fields
\* previous_round and critiques_received record the arguments of the call.
GenerateProposal ==
    /\ dpc = "proposals"
    /\ di <= Len(debate_agents)
    /\ LET cur == current_proposals(state)
           previous == IF Len(cur) > 0
                       THEN <<cur[Len(cur)].agent_id, cur[Len(cur)].round>>
                       ELSE << >>
           critiques == SelectSeq(state.critiques,
                           LAMBDA c : c.target_proposal_id = debate_agents[di]
                                      /\ c.round = state.round - 1)
       IN dlocal' = Append(dlocal,
                       [agent_id |-> debate_agents[di],
                        confidence |-> proposal_confidence,
                        evidence_count |-> 0,
                        round |-> state.round,
                        previous_round |-> previous,
                        critiques_received |-> critiques])
    /\ di' = di + 1
    /\ UNCHANGED <<debate_agents, state, dpc, dj, rounds_started>>
    /\ UNCHANGED debateRest

\* _collect_proposals ends: state.proposals.extend(proposals)
CollectProposalsDone ==
    /\ dpc = "proposals"
    /\ di > Len(debate_agents)
    /\ state' = [state EXCEPT !.proposals = @ \o dlocal]
    /\ dpc' = "critiques"
    /\ di' = 1
    /\ dj' = 1
    /\ dlocal' = << >>
    /\ UNCHANGED <<debate_agents, rounds_started>>
    /\ UNCHANGED debateRest

\* _collect_critiques, one agent.critique_proposal call
CritiqueProposal ==
    /\ dpc = "critiques"
    /\ di <= Len(debate_agents)
    /\ LET others == other_proposals(state, debate_agents[di])
       IN /\ dj <= Len(others)
          /\ dlocal' = Append(dlocal,
                          [critic_id |-> debate_agents[di],
                           target_proposal_id |-> others[dj].agent_id,
                           score |-> critique_score,
                           round |-> state.round])
          /\ IF dj = Len(others)
             THEN di' = di + 1 /\ dj' = 1
             ELSE di' = di /\ dj' = dj + 1
    /\ UNCHANGED <<debate_agents, state, dpc, rounds_started>>
    /\ UNCHANGED debateRest

\* an agent with no other proposal to critique or to vote on is passed over
SkipAgent ==
    /\ dpc \in {"critiques", "voting"}
    /\ di <= Len(debate_agents)
    /\ Len(other_proposals(state, debate_agents[di])) = 0
    /\ di' = di + 1
    /\ UNCHANGED <<debate_agents, state, dpc, dj, dlocal, rounds_started>>
    /\ UNCHANGED debateRest

\* _collect_critiques ends, _collect_rebuttals runs
CollectCritiquesDone ==
    /\ dpc = "critiques"
    /\ di > Len(debate_agents)
    /\ state' = [state EXCEPT !.critiques = @ \o dlocal, !.rebuttals = << >>]
    /\ dpc' = "voting"
    /\ di' = 1
    /\ dlocal' = << >>
    /\ UNCHANGED <<debate_agents, dj, rounds_started>>
    /\ UNCHANGED debateRest

\* _conduct_voting, one agent.vote call
CastVote ==
    /\ dpc = "voting"
    /\ di <= Len(debate_agents)
    /\ LET others == other_proposals(state, debate_agents[di])
       IN /\ Len(others) > 0
          /\ dlocal' = (debate_agents[di] :> vote(others)) @@ dlocal
    /\ di' = di + 1
    /\ UNCHANGED <<debate_agents, state, dpc, dj, rounds_started>>
    /\ UNCHANGED debateRest

\* _conduct_voting ends; _calculate_scores; convergence check; round += 1
ScoreAndCheck ==
    /\ dpc = "voting"
    /\ di > Len(debate_agents)
    /\ LET voted == [state EXCEPT !.votes = dlocal]
           scores == calculate_scores(voted, Len(debate_agents))
           converged == check(state.round, state.max_rounds, dlocal, scores)
       IN state' = [voted EXCEPT
                      !.scores = scores,
                      !.converged = converged,
                      !.round = IF converged THEN @ ELSE @ + 1]
    /\ dpc' = "loop"
    /\ UNCHANGED <<debate_agents, di, dj, dlocal, rounds_started>>
    /\ UNCHANGED debateRest

\* the while loop is left: winner selection and return
Return ==
    /\ dpc = "loop"
    /\ ~(state.round <= state.max_rounds /\ ~state.converged)
    /\ state' = IF DOMAIN state.scores # {}
                THEN [state EXCEPT !.winner = select_winner(state.scores),
                                   !.phase = "converged"]
                ELSE state
    /\ dpc' = "returned"
    /\ UNCHANGED <<debate_agents, di, dj, dlocal, rounds_started>>
    /\ UNCHANGED debateRest

\* the agent call run is waiting for raises: run raises
DebateCallRaise ==
    /\ dpc \in {"proposals", "critiques", "voting"}
    /\ di <= Len(debate_agents)
    /\ dpc = "proposals" \/ Len(other_proposals(state, debate_agents[di])) > 0
    /\ dpc' = "raised"
    /\ UNCHANGED <<debate_agents, state, di, dj, dlocal, rounds_started>>
    /\ UNCHANGED debateRest

DebateNext ==
    \/ \E n \in 0..MaxDebateAgents, r \in 1..MaxRounds : Run(n, r)
    \/ LoopEnter
    \/ GenerateProposal
    \/ CollectProposalsDone
    \/ CritiqueProposal
    \/ SkipAgent
    \/ CollectCritiquesDone
    \/ CastVote
    \/ ScoreAndCheck
    \/ Return
    \/ DebateCallRaise

(***************************************************************************)
(* Delegator.create_delegation_plan                                        *)
(***************************************************************************)
providers == <<"google", "anthropic", "openai">>
defaults == <<"researcher", "analyst", "coder", "reviewer", "synthesizer">>
min_agents == 4
capabilities == <<"RESEARCH", "ANALYSIS", "CODING", "REVIEW">>

Range(s) == {s[i] : i \in DOMAIN s}

\* _select_provider_for_agent
select_provider_for_agent(agent_type, index) ==
    providers[(index % Len(providers)) + 1]

\* agent_provider = provider, or the round-robin one when provider is auto
agent_provider(hint, agent_type, index) ==
    IF hint = "auto" THEN select_provider_for_agent(agent_type, index)
    ELSE hint

\* the capability of a config entry, lower-cased and standardized
standardize_capability(capability) ==
    IF capability = "RESEARCH" THEN "research"
    ELSE IF capability = "CODING" THEN "coding"
    ELSE IF capability = "REVIEW" THEN "review"
    ELSE "analysis"

\* capability_defaults and agent_info[...]["capability"]
capability_defaults(agent_type) ==
    IF agent_type = "researcher" THEN "research"
    ELSE IF agent_type = "coder" THEN "coding"
    ELSE IF agent_type = "reviewer" THEN "review"
    ELSE "analysis"

AgentPlan(agent_type, agent_prov, priority, capability) ==
    [agent_type |-> agent_type, provider |-> agent_prov,
     priority |-> priority, capability |-> capability]

\* _plan_agents, the loop over agent_config
dynamic_plans(agent_config, hint) ==
    [i \in 1..Len(agent_config) |->
        AgentPlan(agent_config[i].role,
                  agent_provider(hint, agent_config[i].role, i - 1),
                  i - 1,
                  standardize_capability(agent_config[i].capability))]

pad_plans_floor_three(plans, hint) ==
    LET k == Len(plans)
        need == IF k < 3 THEN 3 - k ELSE 0
    IN plans \o [d \in 1..need |->
                    AgentPlan(defaults[d],
                              agent_provider(hint, defaults[d], k + d - 1),
                              k + d - 1,
                              capability_defaults(defaults[d]))]

\* _plan_agents, the padding of the dynamic plans up to min_agents
pad_plans(plans, hint) ==
    LET k == Len(plans)
        need == IF k < min_agents THEN min_agents - k ELSE 0
    IN plans \o [d \in 1..need |->
                    AgentPlan(defaults[d],
                              agent_provider(hint, defaults[d], k + d - 1),
                              k + d - 1,
                              capability_defaults(defaults[d]))]

\* agent_count = max(4, min(agent_count, 15))
clamp_agent_count(agent_count) == Max(4, Min(agent_count, 15))

\* the agent types used when the analysis names none
default_agent_types(agent_count) ==
    IF agent_count > 2
    THEN <<"researcher", "analyst">>
         \o SubSeq(<<"reviewer", "synthesizer">>, 1, Min(2, agent_count - 2))
    ELSE <<"researcher", "analyst">>

\* while len(agent_types) < agent_count: append the first default not yet
\* present, else "researcher"
RECURSIVE fill_agent_types(_, _)
fill_agent_types(agent_types, agent_count) ==
    IF Len(agent_types) >= agent_count THEN agent_types
    ELSE LET missing == {d \in DOMAIN defaults :
                            defaults[d] \notin Range(agent_types)}
             next == IF missing # {}
                     THEN defaults[CHOOSE d \in missing :
                                      \A e \in missing : d <= e]
                     ELSE "researcher"
         IN fill_agent_types(Append(agent_types, next), agent_count)

\* _plan_agents, the legacy path
legacy_plans(an, hint) ==
    LET agent_count == clamp_agent_count(an.agent_count)
        given == IF Len(an.agent_types) = 0
                 THEN default_agent_types(agent_count)
                 ELSE an.agent_types
        filled == fill_agent_types(given, agent_count)
        agent_types == SubSeq(filled, 1, agent_count)
    IN [i \in 1..Len(agent_types) |->
          AgentPlan(agent_types[i],
                    agent_provider(hint, agent_types[i], i - 1),
                    i - 1,
                    capability_defaults(agent_types[i]))]

\* Delegator._plan_agents
plan_agents(an, hint) ==
    IF Len(an.agent_config) > 0
    THEN pad_plans(dynamic_plans(an.agent_config, hint), hint)
    ELSE legacy_plans(an, hint)

\* Delegator.create_delegation_plan, given the analysis
create_delegation_plan(an, hint) ==
    LET agents_needed == plan_agents(an, hint)
    IN [execution_strategy |-> determine_strategy(agents_needed, an),
        agents_needed |-> agents_needed,
        estimated_steps |-> Len(agents_needed),
        requires_debate |-> an.requires_debate]

\* the dict _analyze_task returns when the model call or its parsing fails
fallback_analysis ==
    [agent_config |-> << >>, agent_count |-> 4, agent_types |-> <<"analyst">>,
     requires_debate |-> FALSE]

\* Analysis results explored: agent_config of every length up to MaxConfig,
\* agent_count below, inside and above the 4..15 range, a few agent_types.
config_of(k) ==
    [i \in 1..k |-> [role |-> "Role" \o ToString(i),
                     capability |-> capabilities[((i - 1) % 4) + 1]]]
AgentCounts == {1, 4, 6, 15, 20}
AgentTypeLists == {<< >>, <<"analyst">>, <<"coder", "researcher">>, defaults,
                   defaults \o <<"designer">>}
AnalysisResults ==
    [agent_config : {config_of(k) : k \in 0..MaxConfig},
     agent_count : AgentCounts,
     agent_types : AgentTypeLists,
     requires_debate : BOOLEAN]
ProviderHints == {"auto", "google"}

\* the cloud providers a deployment can hold an api key for, and the
\* non-empty sets of them
CloudProviders == {"google", "anthropic", "openai"}
ConfiguredSets == (SUBSET CloudProviders) \ {{}}

\* QueryExpansion.execution_mode
ExecutionModes == {"direct", "decompose"}

NoAnalysis == [agent_config |-> << >>, agent_count |-> 4,
               agent_types |-> << >>, requires_debate |-> FALSE]
NoPlan == [execution_strategy |-> "none", agents_needed |-> << >>,
           estimated_steps |-> 0, requires_debate |-> FALSE]

DelegInit ==
    /\ analysis = NoAnalysis
    /\ provider_hint = "auto"
    /\ delegation_plan = NoPlan
    /\ deleg_pc = "idle"

delegRest == <<supVars, cbVars, routerVars, orchVars, debateVars, toolVars, memVars>>

\* create_delegation_plan is called; _analyze_task returns the parsed JSON
AnalyzeTask(an, hint) ==
    /\ deleg_pc = "idle"
    /\ analysis' = an
    /\ provider_hint' = hint
    /\ deleg_pc' = "analyzed"
    /\ UNCHANGED <<delegation_plan, settings, expansion>>
    /\ UNCHANGED delegRest

\* _analyze_task: the router call or json.loads raises, the fallback dict
AnalyzeTaskFails(hint) ==
    /\ deleg_pc = "idle"
    /\ analysis' = fallback_analysis
    /\ provider_hint' = hint
    /\ deleg_pc' = "analysis_failed"
    /\ UNCHANGED <<delegation_plan, settings, expansion>>
    /\ UNCHANGED delegRest

\* _plan_agents, _determine_strategy and the DelegationPlan returned
PlanAgents ==
    /\ deleg_pc \in {"analyzed", "analysis_failed"}
    /\ delegation_plan' = create_delegation_plan(analysis, provider_hint)
    /\ deleg_pc' = IF deleg_pc = "analyzed" THEN "returned"
                   ELSE "returned_fallback"
    /\ UNCHANGED <<analysis, provider_hint, settings, expansion>>
    /\ UNCHANGED delegRest

DelegNext ==
    \/ \E an \in AnalysisResults, hint \in ProviderHints : AnalyzeTask(an, hint)
    \/ \E hint \in ProviderHints : AnalyzeTaskFails(hint)
    \/ PlanAgents

(***************************************************************************)
(* ToolRegistry                                                            *)
(***************************************************************************)
\* _initialize_tools: the functions registered for the api keys in keys
initialize_tools(keys) ==
    LET search == IF "tavily" \in keys
                  THEN ("web_search" :> "TavilySearchTool.search")
                  ELSE IF "brave" \in keys
                  THEN ("web_search" :> "BraveSearchTool.search")
                  ELSE IF "google" \in keys
                  THEN ("web_search" :> "GeminiSearchTool.search")
                  ELSE << >>
    IN ("fetch_url" :> "WebFetchTool.fetch") @@ search

\* the keyword arguments each registered function requires and accepts
required_params(func) ==
    IF func = "WebFetchTool.fetch" THEN {"url"} ELSE {"query"}

accepted_params(func) ==
    CASE func = "WebFetchTool.fetch" -> {"url", "extract_mode"}
      [] func = "TavilySearchTool.search" ->
            {"query", "search_depth", "max_results", "include_domains",
             "exclude_domains"}
      [] OTHER -> {"query", "max_results"}

\* func(**params) binds: every required name is given, no unknown name
binds(func, params) ==
    required_params(func) \subseteq params /\ params \subseteq accepted_params(func)

\* What the vendor behind a tool does: answers, answers an error with a JSON
\* body, answers an error with a body that is not JSON, or times out.
ToolVendorOutcomes == {"ok", "error_json", "error_body", "timeout"}

Returns(v) == [kind |-> "returned", value |-> v]

Raises(e) == [kind |-> "raised", value |-> e]

\* TavilySearchTool.search and BraveSearchTool.search: no try block
http_search(vendor) ==
    CASE vendor = "ok" -> Returns("results")
      [] vendor = "error_json" -> Returns("empty_list")
      [] vendor = "error_body" -> Raises("JSONDecodeError")
      [] vendor = "timeout" -> Raises("TimeoutException")

\* GeminiSearchTool.search: except Exception: return []
gemini_search(vendor) ==
    IF vendor = "ok" THEN Returns("results") ELSE Returns("empty_list")

\* WebFetchTool.fetch: except Exception: return the dict with "error"
fetch(vendor) ==
    IF vendor = "ok" THEN Returns("content") ELSE Returns("error_payload")

\* ToolRegistry.execute(tool_name, params)
execute(registry, tool_name, params, vendor) ==
    IF tool_name \notin DOMAIN registry THEN Raises("ValueError")
    ELSE LET func == registry[tool_name]
         IN IF ~binds(func, params) THEN Raises("TypeError")
            ELSE IF func = "WebFetchTool.fetch" THEN fetch(vendor)
            ELSE IF func = "GeminiSearchTool.search" THEN gemini_search(vendor)
            ELSE http_search(vendor)

ToolNames == {"web_search", "fetch_url", "calculator"}
ToolParams == {{}, {"query"}, {"query", "max_results"}, {"query", "search_depth"},
               {"url"}, {"url", "query"}}
\* the api keys of the deployments explored for the registry
ToolKeySets == {{}, {"google"}, {"brave", "google"}, {"tavily", "brave"}}

ToolsIdle ==
    /\ tools = << >>
    /\ tool_log = << >>

\* ToolRegistry.__init__ in a deployment with the keys in settings
ToolsInit ==
    /\ settings \in ToolKeySets
    /\ tools = initialize_tools(settings)
    /\ tool_log = << >>

\* One execute call, awaited to its end.
Execute(tool_name, params, vendor) ==
    /\ Len(tool_log) < MaxToolCalls
    /\ tool_log' = Append(tool_log,
                          [tool_name |-> tool_name, params |-> params,
                           vendor |-> vendor,
                           outcome |-> execute(tools, tool_name, params, vendor)])
    /\ UNCHANGED tools
    /\ UNCHANGED <<supVars, cbVars, routerVars, orchVars, debateVars, delegVars,
                   memVars>>

ToolsNext ==
    \E tool_name \in ToolNames, params \in ToolParams,
       vendor \in ToolVendorOutcomes : Execute(tool_name, params, vendor)

(***************************************************************************)
(* MemoryManager.write and the Redis stream memory:stream:<task>           *)
(***************************************************************************)
stream_maxlen == 1000

\* the store calls one write can make
StoreCalls == {"redis.set", "qdrant.upsert", "postgres.save",
               "redis.publish_memory_update"}

\* MemoryEntry, reduced to whether ttl_seconds and embedding are set
Entries == [ttl_seconds : BOOLEAN, embedding : BOOLEAN]

\* which of the three stores the MemoryManager was built with
StoreSets == [redis : BOOLEAN, qdrant : BOOLEAN, postgres : BOOLEAN]

\* MemoryManager.write(entry) when the store calls in fails raise: what was
\* called, how the durable save ended, whether the update was published,
\* and what write handed to its caller.
write(stores, entry, fails) ==
    LET ephemeral == entry.ttl_seconds /\ stores.redis
        vector == entry.embedding /\ stores.qdrant
        durable == stores.postgres
        publish == stores.redis
    IN [entry |-> entry,
        called |-> {c \in StoreCalls :
                       \/ c = "redis.set" /\ ephemeral
                       \/ c = "qdrant.upsert" /\ vector
                       \/ c = "postgres.save" /\ durable
                       \/ c = "redis.publish_memory_update" /\ publish},
        fails |-> fails,
        durable |-> IF ~durable THEN "no store"
                    ELSE IF "postgres.save" \in fails THEN "raised"
                    ELSE "saved",
        published |-> publish /\ "redis.publish_memory_update" \notin fails,
        result |-> "entry.id"]

NoWrite == [entry |-> [ttl_seconds |-> FALSE, embedding |-> FALSE],
            called |-> {}, fails |-> {}, durable |-> "none",
            published |-> FALSE, result |-> "none"]

\* the id of the newest entry of the stream, 0 for an empty stream
top_id(entries) == IF Len(entries) = 0 THEN 0 ELSE entries[Len(entries)]

\* redis.xadd(key, fields, maxlen=1000): the entry gets the next id and the
\* stream keeps its newest maxlen entries
xadd(entries, maxlen) ==
    LET added == Append(entries, top_id(entries) + 1)
    IN IF Len(added) > maxlen
       THEN SubSeq(added, Len(added) - maxlen + 1, Len(added))
       ELSE added

\* the entries XREAD returns for a start id already resolved by the server
entries_after(entries, id) == SelectSeq(entries, LAMBDA e : e > id)

\* last_id = "$" is the empty sequence, a message id n is <<n>>
NoSubscriber == [pc |-> "idle", last_id |-> << >>, read_from |-> 0,
                 yielded |-> << >>, started_after |-> 0]

MemIdle ==
    /\ memory_stores = [redis |-> FALSE, qdrant |-> FALSE, postgres |-> FALSE]
    /\ last_write = NoWrite
    /\ stream = << >>
    /\ subscriber = NoSubscriber

MemInit ==
    /\ memory_stores \in StoreSets
    /\ last_write = NoWrite
    /\ stream = << >>
    /\ subscriber = NoSubscriber

memRest == <<supVars, cbVars, routerVars, orchVars, debateVars, delegVars, toolVars>>

\* MemoryManager.write(entry), awaited to its end
Write(entry, fails) ==
    /\ top_id(stream) < MaxUpdates
    /\ LET w == write(memory_stores, entry, fails)
       IN /\ fails \subseteq w.called
          /\ last_write' = w
          /\ stream' = IF w.published THEN xadd(stream, stream_maxlen) ELSE stream
    /\ UNCHANGED <<memory_stores, subscriber>>
    /\ UNCHANGED memRest

\* GET /api/tasks/{id}/stream: MemoryManager.subscribe_to_task is called;
\* without a redis store the generator ends at once
Subscribe ==
    /\ subscriber.pc = "idle"
    /\ subscriber' = [subscriber EXCEPT
                        !.pc = IF memory_stores.redis THEN "started" ELSE "ended",
                        !.started_after = top_id(stream)]
    /\ UNCHANGED <<memory_stores, last_write, stream>>
    /\ UNCHANGED memRest

\* subscribe_to_task lines 82-85: the xread call reaches the server, which
\* resolves "$" to the id of its newest entry at that moment
XRead ==
    /\ subscriber.pc \in {"started", "loop"}
    /\ subscriber' = [subscriber EXCEPT
                        !.pc = "blocked",
                        !.read_from = IF subscriber.last_id = << >>
                                      THEN top_id(stream)
                                      ELSE subscriber.last_id[1]]
    /\ UNCHANGED <<memory_stores, last_write, stream>>
    /\ UNCHANGED memRest

\* lines 86-89: xread returns the new entries, each is yielded and becomes
\* last_id
XReadReturn ==
    /\ subscriber.pc = "blocked"
    /\ LET msgs == entries_after(stream, subscriber.read_from)
       IN /\ Len(msgs) > 0
          /\ subscriber' = [subscriber EXCEPT
                              !.pc = "loop",
                              !.last_id = <<msgs[Len(msgs)]>>,
                              !.yielded = @ \o msgs]
    /\ UNCHANGED <<memory_stores, last_write, stream>>
    /\ UNCHANGED memRest

\* block=5000 elapses with no new entry: xread returns nothing
XReadTimeout ==
    /\ subscriber.pc = "blocked"
    /\ Len(entries_after(stream, subscriber.read_from)) = 0
    /\ subscriber' = [subscriber EXCEPT !.pc = "loop"]
    /\ UNCHANGED <<memory_stores, last_write, stream>>
    /\ UNCHANGED memRest

\* xread raises: MemoryManager.subscribe_to_task swallows it and ends
XReadRaises ==
    /\ subscriber.pc = "blocked"
    /\ subscriber' = [subscriber EXCEPT !.pc = "ended"]
    /\ UNCHANGED <<memory_stores, last_write, stream>>
    /\ UNCHANGED memRest

MemNext ==
    \/ \E entry \in Entries, fails \in SUBSET StoreCalls : Write(entry, fails)
    \/ Subscribe
    \/ XRead
    \/ XReadReturn
    \/ XReadTimeout
    \/ XReadRaises

(***************************************************************************)
(* Specifications of the supervisor, the breaker and the router            *)
(***************************************************************************)
OrchUnused ==
    /\ pc = "unused" /\ task = "unused" /\ tasks_store = {} /\ db = << >>
    /\ postgres_store = "absent"
    /\ task_agents = << >> /\ plan = 0 /\ calls = << >> /\ pending = << >>
    /\ supervisor_critiques = << >> /\ attempt = 0 /\ del_pc = "unused" /\ deleted_while = "unused"
    /\ hist = << >> /\ writes = << >>

OrchIdle ==
    /\ OrchUnused
    /\ DebateInit /\ DelegInit /\ ToolsIdle /\ MemIdle

SupervisorInit ==
    /\ SupInit /\ CBInit /\ RouterIdle
    /\ OrchIdle
    /\ settings = DeployedKeys /\ expansion = "decompose"

SpecSupervisor == SupervisorInit /\ [][SupNext]_vars

BreakerInit ==
    /\ SupInit /\ CBInit /\ RouterIdle
    /\ OrchIdle
    /\ settings = DeployedKeys /\ expansion = "decompose"

SpecBreaker == BreakerInit /\ [][CBNext]_vars

RouterSpecInit ==
    /\ SupInit /\ cb = NewBreaker /\ cb_hist = NoCbHist /\ RouterInit /\ OrchIdle
    /\ settings = DeployedKeys /\ expansion = "decompose"

SpecRouter == RouterSpecInit /\ [][RouterNext]_vars

\* a router on which MaxCalls completion calls are made, in any interleaving
ConcurrentSpecInit ==
    /\ SupInit /\ cb = NewBreaker /\ cb_hist = NoCbHist /\ ConcurrentInit
    /\ OrchIdle
    /\ settings = DeployedKeys /\ expansion = "decompose"

SpecRouterConcurrent == ConcurrentSpecInit /\ [][ConcurrentNext]_vars

DebateSpecInit ==
    /\ SupInit /\ CBInit /\ RouterIdle
    /\ OrchIdle
    /\ settings = DeployedKeys /\ expansion = "decompose"

SpecDebate == DebateSpecInit /\ [][DebateNext]_vars

\* every agent call returns or raises, and run is not suspended forever
SpecDebateFair == SpecDebate /\ WF_vars(DebateNext)

\* a Delegator of a deployment with any non-empty set of cloud keys, called
\* for a task whose expansion is direct or decompose
DelegatorInit ==
    /\ SupInit /\ CBInit /\ RouterIdle
    /\ OrchIdle
    /\ settings \in ConfiguredSets
    /\ expansion \in ExecutionModes

SpecDelegator == DelegatorInit /\ [][DelegNext]_vars

\* a ToolRegistry built in a deployment with one of the key sets
ToolsSpecInit ==
    /\ SupInit /\ CBInit /\ RouterIdle
    /\ OrchUnused
    /\ DebateInit /\ DelegInit
    /\ expansion = "decompose"
    /\ ToolsInit /\ MemIdle

SpecTools == ToolsSpecInit /\ [][ToolsNext]_vars

\* a MemoryManager built with any subset of the three stores, written to
\* by the orchestrator while one client subscribes to the task's stream
MemorySpecInit ==
    /\ SupInit /\ CBInit /\ RouterIdle
    /\ OrchUnused
    /\ DebateInit /\ DelegInit /\ ToolsIdle
    /\ settings = DeployedKeys /\ expansion = "decompose"
    /\ MemInit

SpecMemory == MemorySpecInit /\ [][MemNext]_vars

Init ==
    /\ OrchInit
    /\ last_critique = NoCall
    /\ CBInit /\ RouterIdle
    /\ DebateInit /\ DelegInit /\ ToolsIdle /\ MemIdle
    /\ settings = DeployedKeys /\ expansion = "decompose"

Spec == Init /\ [][Next]_vars

(***************************************************************************)
(* Properties                                                              *)
(***************************************************************************)
TerminalStatuses == {"completed", "failed", "cancelled"}

\* The task as the program can show it: the object itself once created, and
\* every row of the durable store.
TaskViews == (IF pc = "none" THEN {} ELSE {task}) \cup {db[k] : k \in DOMAIN db}

\* execute_task is past its rework loop and has not failed.
PastReworkLoop ==
    \/ pc \in {"validate", "attach_validation", "synthesize"}
    \/ pc \in {"final_save", "finished"} /\ task.has_result

\* C1: in every state of a run of execute_task, every subtask's rework_count
\* is between 0 and MAX_REWORK_ATTEMPTS = 2, for any plan size and any
\* sequence of supervisor decisions.
C1_ReworkCountBounded ==
    \A t \in TaskViews : \A i \in DOMAIN t.subtasks :
        /\ 0 <= t.subtasks[i].rework_count
        /\ t.subtasks[i].rework_count <= 2

C1_Witness ==
    /\ task.status = "completed"
    /\ \E i \in DOMAIN task.subtasks :
          /\ task.subtasks[i].rework_count = 2
          /\ hist[i].last_decision = "REJECT"

\* C2: an agent whose every evaluation is the score-4 REWORK one is
\* re-dispatched at most twice, the critique after the second rework returns
\* ACCEPT, and its subtask ends with rework_count = 2.
C2_ReworkExhaustion ==
    \A i \in AgentIds :
        /\ hist[i].dispatches <= 2
        /\ (PastReworkLoop /\ i \in Slots /\ hist[i].all_s3) =>
              /\ hist[i].dispatches = 2
              /\ hist[i].critiques = 3
              /\ hist[i].last_decision = "ACCEPT"
              /\ supervisor_critiques[i].decision = "ACCEPT"
              /\ task.subtasks[i].rework_count = 2

C2_Witness ==
    /\ pc = "finished"
    /\ task.has_result
    /\ \E i \in Slots : hist[i].all_s3 /\ task.subtasks[i].rework_count = 2

\* C3: a critique_agent_work call made when the agent's rework count equals
\* max_rework_attempts returns ACCEPT whatever the evaluation, also for an
\* evaluation that from_evaluation maps to REJECT.
C3_ForcedAcceptAtMax ==
    (last_critique.agent_id # 0
     /\ last_critique.count_before = max_rework_attempts)
        => last_critique.critique.decision = "ACCEPT"

\* C4: the breaker's state changes only closed->open, open->half_open,
\* half_open->open (on any failure) and half_open->closed (on any success),
\* and failure_count is 0 whenever the breaker has just entered closed.
C4_BreakerTransitions ==
    [][/\ cb'.state # cb.state =>
            <<cb.state, cb'.state>> \in {<<"closed", "open">>,
                                         <<"open", "half_open">>,
                                         <<"half_open", "open">>,
                                         <<"half_open", "closed">>}
       /\ (cb.state = "half_open" /\ CBRecordFailure) => cb'.state = "open"
       /\ (cb.state = "half_open" /\ CBRecordSuccess) => cb'.state = "closed"
       /\ (cb.state # "closed" /\ cb'.state = "closed") =>
            cb'.failure_count = 0]_vars

\* a breaker that opened, went half_open, failed again and is half_open again
C4_Witness ==
    /\ cb.state = "half_open"
    /\ cb.failure_count > failure_threshold

\* C5: when the primary provider's breaker rejects the request, completion
\* calls the fallback model, and if that vendor call succeeds completion
\* returns its response, also for a fallback provider never called before.
C5_FallbackReturns ==
    (last_call.rejected /\ VendorSucceeds(last_call.vendor)) =>
        /\ last_call.called_model =
              get_fallback(resolve_model(last_call.model_arg))
        /\ last_call.outcome = "returned"

\* C6: once delete_task has set the status to cancelled it stays cancelled.
C6_CancelledIsFinal ==
    [][task.status = "cancelled" => task'.status = "cancelled"]_vars

\* C7: after delete_task has returned for a task deleted while in_progress,
\* get_task answers 404 in every later state.
C7_DeletedStays404 ==
    (del_pc = "returned" /\ deleted_while = "in_progress")
        => get_task(TaskId) = NotFound

\* C8: completed_at is set exactly for the tasks whose status is terminal.
C8_CompletedAtIffTerminal ==
    \A t \in TaskViews :
        (t.status \in TerminalStatuses) <=> (t.completed_at # "null")

\* C9: in every task state, in memory or saved by a checkpoint,
\* progress = 1.0 exactly when status = completed.
C9_ProgressOneIffCompleted ==
    \A t \in TaskViews : (t.progress = 100) <=> (t.status = "completed")

C9_Witness ==
    /\ task.status = "completed"
    /\ task.progress = 100
    /\ TaskId \in DOMAIN db
    /\ db[TaskId].status = "completed"
    /\ del_pc = "returned"

\* C10: for a completed task, agents_count = number of subtasks = number of
\* non-supervisor agents created for it; the supervisor has no subtask and
\* every subtask's parent_task_id is the task's id.
C10_AgentsCount ==
    \A t \in TaskViews :
        t.status = "completed" =>
            /\ t.agents_count = Len(t.subtasks)
            /\ Len(t.subtasks) =
                 Cardinality({k \in DOMAIN task_agents[t.id] :
                                 task_agents[t.id][k] # SupervisorId})
            /\ \A i \in DOMAIN t.subtasks :
                  /\ t.subtasks[i].parent_task_id = t.id
                  /\ t.subtasks[i].agent_id # SupervisorId

C10_Witness ==
    /\ task.status = "completed"
    /\ task.agents_count = MaxAgents
    /\ Len(task_agents[TaskId]) = MaxAgents + 1

\* A step of execute_task's try body has raised: a gathered coroutine, or
\* the delegation or the agent creation (no agent list was stored).
RaisedSomewhere ==
    \/ \E i \in AgentIds : calls[i] = "raised"
    \/ pc \in {"final_save", "finished"} /\ TaskId \notin DOMAIN task_agents

\* The status execute_task has assigned when it is at position p and
\* nothing has raised.
StatusAt(p) ==
    IF p \in {"none", "pending"} THEN "pending"
    ELSE IF p \in {"attach_validation", "synthesize"} THEN "validating"
    ELSE IF p \in {"final_save", "finished"} THEN "completed"
    ELSE "in_progress"

\* C11: with a working durable store, once execute_task_with_persistence
\* has returned, the last record written carries the task's final status
\* (completed on success, failed on failure); on success at least 5 writes
\* were made, among them the ones at in_progress, after delegation, after
\* subtask creation, at validating and at the end.
C11_FinalStatePersisted ==
    (postgres_store = "present" /\ pc = "finished") =>
        /\ writes.last_status = task.status
        /\ task.status = (IF task.has_result THEN "completed" ELSE "failed")
        /\ task.has_result =>
              /\ writes.count >= 5
              /\ {"pending", "delegate", "materialize", "validate",
                  "final_save"} \subseteq writes.at

C11_Witness ==
    /\ postgres_store = "present"
    /\ pc = "finished"
    /\ task.status = "failed"
    /\ writes.last_status = "failed"
    /\ \E i \in AgentIds : calls[i] = "raised" /\ hist[i].dispatches = 2

\* C12: a save_task call that raises, or an absent store, never makes the
\* task failed and never changes the statuses it goes through: a task is
\* failed only when a step of the pipeline raised, its error is never the
\* store's, and while nothing has raised and nothing was deleted the status
\* is the one of the position.
C12_PersistenceFailureSwallowed ==
    /\ task.status = "failed" => RaisedSomewhere
    /\ task.error \in {"null", "message"}
    /\ (del_pc = "idle" /\ ~RaisedSomewhere) => task.status = StatusAt(pc)
    /\ (pc = "finished" /\ ~RaisedSomewhere) => task.status = "completed"

C12_Witness ==
    /\ postgres_store = "flaky"
    /\ writes.swallowed = MaxSaveFailures
    /\ pc = "finished"
    /\ task.status = "completed"
    /\ TaskId \in DOMAIN db
    /\ "pending" \notin writes.at

\* C13: when a step of execute_task raises, execute_task returns normally
\* with status failed and error set to the message; once it has returned
\* the task is never in_progress or validating.
C13_ExceptionMeansFailed ==
    /\ RaisedSomewhere =>
          /\ pc \in {"final_save", "finished"}
          /\ task.status = "failed"
          /\ task.error = "message"
    /\ pc \in {"final_save", "finished"} =>
          task.status \in {"completed", "failed"}

C13_Witness ==
    /\ pc = "finished"
    /\ task.status = "failed"
    /\ task.error = "message"
    /\ \E i \in AgentIds : calls[i] = "raised" /\ hist[i].critiques = 1
                             /\ hist[i].dispatches = 1

\* The round the recorded votes and scores belong to: a round that did not
\* converge has already been followed by round += 1.
VoteRound == IF state.converged THEN state.round ELSE state.round - 1

\* C14: no recorded vote names the voter's own proposal, in the votes being
\* collected and in state.votes, in every round and for every agent list.
C14_NoSelfVote ==
    /\ \A a \in DOMAIN state.votes : state.votes[a] # a
    /\ dpc = "voting" => \A a \in DOMAIN dlocal : dlocal[a] # a

C14_Witness ==
    /\ dpc = "returned"
    /\ Len(debate_agents) = 3
    /\ state.round = 2
    /\ DOMAIN state.votes = {1, 2, 3}

\* C15: with N >= 2 agents every scored round has exactly N votes, one per
\* agent, each naming a proposal of that round, and the per-proposal vote
\* counts sum to N.
C15_VotesComplete ==
    (Len(debate_agents) >= 2 /\ DOMAIN state.scores # {}) =>
        /\ DOMAIN state.votes = Range(debate_agents)
        /\ Cardinality(DOMAIN state.votes) = Len(debate_agents)
        /\ \A a \in DOMAIN state.votes :
              \E k \in DOMAIN state.proposals :
                 /\ state.proposals[k].round = VoteRound
                 /\ state.proposals[k].agent_id = state.votes[a]
        /\ SumOver(count_votes(state.votes),
                   DOMAIN count_votes(state.votes)) = Len(debate_agents)

C15_Witness ==
    /\ dpc = "returned"
    /\ Len(debate_agents) = MaxDebateAgents
    /\ count_votes(state.votes)[1] = MaxDebateAgents - 1
    /\ count_votes(state.votes)[2] = 1

C17_ConvergedHasWinner ==
    (dpc = "returned" /\ state.converged) =>
        /\ state.winner # NoWinner
        /\ state.winner \in DOMAIN state.scores
        /\ \A e \in DOMAIN state.scores :
              state.scores[e] <= state.scores[state.winner]
        /\ state.phase = "converged"

\* C18: when in a round r < max_rounds one proposal has at least
\* convergence_threshold of the votes cast, the debate converges after
\* scoring round r, round r+1 is not begun, and the winner returned is that
\* proposal.
C18_SupermajorityConverges ==
    LET counts == count_votes(state.votes)
        total == Cardinality(DOMAIN state.votes)
        super == {q \in DOMAIN counts :
                     counts[q] * 10 >= convergence_threshold * total}
    IN (DOMAIN state.votes # {} /\ super # {}
        /\ VoteRound < state.max_rounds) =>
           /\ state.converged
           /\ rounds_started = VoteRound
           /\ \A k \in DOMAIN state.proposals :
                 state.proposals[k].round <= VoteRound
           /\ dpc = "returned" => state.winner \in super

C18_Witness ==
    /\ dpc = "returned"
    /\ Len(debate_agents) = 5
    /\ state.max_rounds = 2
    /\ state.round = 1
    /\ count_votes(state.votes)[1] = 4
    /\ state.winner = 1

\* C19: every plan create_delegation_plan returns has at least 4 agents,
\* also for an empty agent_config.
C19_AtLeastFourAgents ==
    deleg_pc \in {"returned", "returned_fallback"} =>
        Len(delegation_plan.agents_needed) >= 4

C19_Witness ==
    /\ deleg_pc = "returned"
    /\ Len(analysis.agent_config) = 2
    /\ Len(delegation_plan.agents_needed) = 4
    /\ delegation_plan.agents_needed[3].agent_type = "researcher"
    /\ delegation_plan.agents_needed[4].agent_type = "analyst"

\* C20: every plan whose strategy is not single has at most 15 agents, for
\* any length of agent_config and any agent_count.
C20_AtMostFifteenAgents ==
    (deleg_pc \in {"returned", "returned_fallback"}
     /\ delegation_plan.execution_strategy # "single") =>
        Len(delegation_plan.agents_needed) <= 15

Returned == deleg_pc \in {"returned", "returned_fallback"}

\* the number of planned agents whose provider is p
AgentsOn(p) ==
    Cardinality({i \in DOMAIN delegation_plan.agents_needed :
                    delegation_plan.agents_needed[i].provider = p})

\* C21: with provider hint auto, every planned agent's provider is one of
\* the configured providers, and the numbers of agents of any two configured
\* providers differ by at most 1.
C21_RoundRobinOverConfigured ==
    (Returned /\ provider_hint = "auto") =>
        /\ \A i \in DOMAIN delegation_plan.agents_needed :
              delegation_plan.agents_needed[i].provider \in settings
        /\ \A p, q \in settings : AgentsOn(p) - AgentsOn(q) <= 1

\* C22: for a task whose expansion is direct, the plan returned has exactly
\* one agent and strategy single.
C22_DirectTaskSingleAgent ==
    (Returned /\ expansion = "direct") =>
        /\ Len(delegation_plan.agents_needed) = 1
        /\ delegation_plan.execution_strategy = "single"

\* the counters of a supervisor about to be called for agent b
CounterStates == [AgentIds -> 0..MaxSupCount]

\* the decision a critique_agent_work call returns for agent b
decision_of(counts, b, ev) == critique_agent_work(counts, b, ev).critique.decision

\* C23 as stated: any invocation whose evaluation has the overall_score and
\* the verdict of the last call's, made at the same rework count of its
\* agent, returns the decision the last call returned.
C23_DecisionOfScoreVerdictCount ==
    last_critique.agent_id # 0 =>
        \A counts \in CounterStates, b \in AgentIds, ev \in Evaluations :
            (/\ counts[b] = last_critique.count_before
             /\ ev.overall_score = last_critique.evaluation.overall_score
             /\ ev.verdict = last_critique.evaluation.verdict) =>
                decision_of(counts, b, ev) = last_critique.critique.decision

\* C23 amended: any invocation whose evaluation has the overall_score, the
\* verdict, the rework_required flag and the critical issue count of the
\* last call's, made at the same rework count of its agent, returns the
\* decision the last call returned, whichever the agent and whatever the
\* other agents' counters.
C23_DecisionOfEvaluationAndCount ==
    last_critique.agent_id # 0 =>
        \A counts \in CounterStates, b \in AgentIds, ev \in Evaluations :
            (/\ counts[b] = last_critique.count_before
             /\ ev.overall_score = last_critique.evaluation.overall_score
             /\ ev.verdict = last_critique.evaluation.verdict
             /\ ev.rework_required = last_critique.evaluation.rework_required
             /\ ev.critical = last_critique.evaluation.critical) =>
                decision_of(counts, b, ev) = last_critique.critique.decision

\* agent 2 is forced to ACCEPT at its third rework while agent 1 was never
\* reworked
C23_Witness ==
    /\ last_critique.agent_id = 2
    /\ last_critique.count_before = max_rework_attempts
    /\ from_evaluation(last_critique.evaluation, quality_threshold) = "REWORK"
    /\ last_critique.critique.decision = "ACCEPT"
    /\ rework_counts[1] = 0

\* the calls in which something went wrong: an unknown tool, parameters the
\* function does not bind, or a vendor call that failed or timed out
ToolCallFailed(c) ==
    \/ c.tool_name \notin DOMAIN tools
    \/ ~binds(tools[c.tool_name], c.params)
    \/ c.vendor # "ok"

\* C24: every execute call returns, and a call in which something went
\* wrong returns a value carrying an error payload.
C24_ExecuteNeverRaises ==
    \A k \in DOMAIN tool_log :
        /\ tool_log[k].outcome.kind = "returned"
        /\ ToolCallFailed(tool_log[k]) =>
              tool_log[k].outcome.value = "error_payload"

AllCallsExited == \A c \in CallIds : inflight[c].pc \in {"idle", "returned", "raised"}

\* C25: once every completion call has exited, each credential variable
\* holds the value it had before the calls began.
C25_EnvironmentRestored ==
    (inflight # NoInflight /\ AllCallsExited) => environ = original_environ

\* C26: a half_open breaker has admitted at most half_open_max_calls
\* requests since it became half_open without a success or a failure being
\* recorded.
C26_HalfOpenAdmitsAtMostThree ==
    cb.state = "half_open" => cb_hist.admitted <= half_open_max_calls

\* C27: a closed breaker allows every request and has recorded fewer than
\* failure_threshold failures since the last recorded success; it opens in
\* the step in which that number reaches failure_threshold and in no other
\* step, and a success recorded while it is closed sets failure_count to 0.
C27_ClosedOpensAtThreshold ==
    [][/\ cb.state = "closed" =>
            /\ allow_request(cb, now) = [breaker |-> cb, allowed |-> TRUE]
            /\ cb.failure_count = cb_hist.consecutive
            /\ cb_hist.consecutive < failure_threshold
       /\ (cb.state = "closed" /\ cb'.state = "open") =>
            /\ cb_hist.consecutive = failure_threshold - 1
            /\ cb_hist'.consecutive = failure_threshold
       /\ (cb.state = "closed" /\ cb_hist'.consecutive = failure_threshold) =>
            cb'.state = "open"
       /\ (cb.state = "closed" /\ CBRecordSuccess) =>
            (cb'.state = "closed" /\ cb'.failure_count = 0)]_vars

\* a breaker that has just opened on its fifth consecutive failure
C27_Witness ==
    /\ cb.state = "open"
    /\ cb.failure_count = failure_threshold
    /\ cb_hist.consecutive = failure_threshold
    /\ cb_hist.opened_at = now
    /\ now >= 2

\* C28: an open breaker rejects every request made less than
\* recovery_timeout after it opened, and admits a request made
\* recovery_timeout or more after it opened, becoming half_open with
\* half_open_calls 0.
C28_OpenRejectsUntilTimeout ==
    cb.state = "open" =>
        IF now - cb_hist.opened_at < recovery_timeout
        THEN allow_request(cb, now) = [breaker |-> cb, allowed |-> FALSE]
        ELSE allow_request(cb, now) =
                [breaker |-> [cb EXCEPT !.state = "half_open",
                                        !.half_open_calls = 0],
                 allowed |-> TRUE]

\* C29: when the primary provider's breaker rejects the request, the
\* breaker of the provider completion sends the vendor call to allows it.
C29_FallbackBreakerAllows ==
    (last_call.rejected /\ last_call.vendor_calls > 0) => last_call.called_allowed

\* the model ids completion may resolve auto to
CloudModels == {cloud_model_list[i] : i \in DOMAIN cloud_model_list}

\* C30: a call the primary breaker admits sends to the vendor, for a
\* provider name or alias, the model id configured for that provider, for a
\* name containing "/" that name unchanged, and for auto a configured cloud
\* model, never an ollama one.
C30_ModelResolution ==
    \A c \in DOMAIN inflight :
        (inflight[c].pc # "idle" /\ inflight[c].admitted_by # "fallback") =>
            LET m == inflight[c].model_arg
                called == inflight[c].model
            IN /\ m \in {"google", "gemini-flash"} => called = default_google
               /\ m \in {"anthropic", "claude-sonnet"} => called = default_anthropic
               /\ m \in {"openai", "gpt-4o"} => called = default_openai
               /\ m = "openrouter" => called = default_openrouter
               /\ "/" \in Tokens(m) => called = m
               /\ m = "auto" => (called \in CloudModels
                                 /\ inflight[c].provider # "ollama")

\* C31: a completion call makes at most two vendor calls, the second only
\* after a first response cut with finish_reason "length", and what it
\* returns then is the first content followed directly by the
\* continuation's content.
C31_OneContinuationConcatenated ==
    \A c \in DOMAIN inflight :
        /\ inflight[c].vendor_calls <= 2
        /\ (inflight[c].pc = "returned" /\ inflight[c].vendor_calls = 2)
              => inflight[c].content =
                   inflight[c].partial_content \o inflight[c].continuation_content

\* the parts of C31 about the number of vendor calls
AtMostOneContinuation ==
    \A c \in DOMAIN inflight :
        /\ inflight[c].vendor_calls <= 2
        /\ inflight[c].pc = "continuation" => inflight[c].vendor_calls = 2
        /\ (inflight[c].pc = "returned" /\ inflight[c].vendor_calls = 1)
              => inflight[c].partial_content = << >>

\* the coroutine kinds execute_task gathers, and the calls of one kind that
\* are not yet back
RunningKinds == {"run_agent", "run_critique", "run_rework", "run_recritique"}

StillRunning(kind) == {i \in AgentIds : calls[i] = kind}

Starts(kind) == \E i \in AgentIds : calls'[i] = kind /\ calls[i] # kind

\* C32: within one execute_task run no critique starts while an agent call
\* of the initial batch is out, no rework starts before every initial
\* critique is back, no re-critique starts while a rework of the round is
\* out, the status turns validating only once the rework loop has exited
\* with no call out, and the synthesis ends only on a task that already has
\* its validation_results.
C32_StagesOrdered ==
    [][/\ Starts("run_critique") =>
            /\ StillRunning("run_agent") = {}
            /\ \A i \in Slots : task.subtasks[i].has_result
       /\ Starts("run_rework") =>
            /\ StillRunning("run_critique") = {}
            /\ StillRunning("run_recritique") = {}
            /\ \A i \in Slots : hist[i].critiques >= 1
       /\ Starts("run_recritique") =>
            /\ StillRunning("run_rework") = {}
            /\ \A i \in AgentIds :
                  calls'[i] = "run_recritique" =>
                      task.subtasks[i].rework_count = hist[i].dispatches
       /\ (task'.status = "validating" /\ task.status # "validating") =>
            /\ pc = "validate"
            /\ \A i \in AgentIds : calls[i] \notin RunningKinds
            /\ (attempt >= MAX_REWORK_ATTEMPTS \/ agents_to_rework = {})
       /\ (task'.has_result /\ ~task.has_result) =>
            /\ task.has_validation
            /\ task.status \in {"validating", "cancelled"}
      ]_vars

\* a run that went through every stage: two agents, one of them reworked
\* and critiqued again, validation attached, the report synthesized
C32_Witness ==
    /\ pc = "finished"
    /\ task.has_result /\ task.has_validation
    /\ Len(task.subtasks) = 2
    /\ \E i \in Slots : task.subtasks[i].rework_count >= 1 /\ hist[i].critiques >= 2
    /\ \E i \in Slots : task.subtasks[i].rework_count = 0

\* C33: a task whose delegation plan has execution_strategy "debate" is not
\* run through the parallel agent execution, and when it is completed its
\* debate_state holds the final state of DebateEngine.run.
C33_DebateStrategyRunsDebate ==
    task.execution_strategy = "debate" =>
        /\ \A i \in AgentIds : calls[i] # "run_agent"
        /\ task.status = "completed" => task.debate_state # "null"

\* C34: when _analyze_task fails, create_delegation_plan still returns, and
\* the plan it returns has exactly one agent, of type analyst.
C34_AnalysisFailureSingleAnalyst ==
    deleg_pc = "returned_fallback" =>
        /\ Len(delegation_plan.agents_needed) = 1
        /\ delegation_plan.agents_needed[1].agent_type = "analyst"

\* the generate_proposal calls made so far, as the proposals they produced
ProposalCalls ==
    IF dpc = "proposals" THEN state.proposals \o dlocal ELSE state.proposals

\* C35: a generate_proposal call of round 1 receives no previous proposal
\* and no critiques; a call of a round r > 1 receives the calling agent's
\* own proposal of round r - 1 and exactly the critiques of round r - 1 that
\* target that agent's proposal.
C35_ProposalInputs ==
    \A k \in DOMAIN ProposalCalls :
        LET p == ProposalCalls[k]
        IN IF p.round = 1
           THEN p.previous_round = << >> /\ p.critiques_received = << >>
           ELSE /\ p.previous_round = <<p.agent_id, p.round - 1>>
                /\ p.critiques_received =
                     SelectSeq(state.critiques,
                               LAMBDA c : c.target_proposal_id = p.agent_id
                                          /\ c.round = p.round - 1)

\* the part of C35 about critiques_received
CritiquesReceivedAreLastRounds ==
    \A k \in DOMAIN ProposalCalls :
        LET p == ProposalCalls[k]
        IN p.critiques_received =
             SelectSeq(state.critiques,
                       LAMBDA c : c.target_proposal_id = p.agent_id
                                  /\ c.round = p.round - 1)

\* C36: before the rework bound is applied, the decision on an evaluation is
\* REJECT if it has a critical issue or the verdict REJECT; otherwise REWORK
\* if rework_required is set, the score is below 7, or the verdict is
\* NEEDS_REWORK or NEEDS_MINOR_IMPROVEMENT; otherwise ACCEPT.
C36_DecisionRule ==
    last_critique.agent_id # 0 =>
        LET ev == last_critique.evaluation
            rejects == ev.critical > 0 \/ ev.verdict = "REJECT"
            reworks == \/ ev.rework_required
                       \/ ev.overall_score < 7
                       \/ ev.verdict = "NEEDS_REWORK"
                       \/ ev.verdict = "NEEDS_MINOR_IMPROVEMENT"
        IN /\ rejects => last_critique.action = "REJECT"
           /\ (~rejects /\ reworks) => last_critique.action = "REWORK"
           /\ (~rejects /\ ~reworks) => last_critique.action = "ACCEPT"

\* an evaluation at the threshold, sent to rework by its verdict alone, on
\* an agent whose rework bound then turns the decision into ACCEPT
C36_Witness ==
    /\ last_critique.agent_id # 0
    /\ last_critique.evaluation.overall_score = 7
    /\ last_critique.evaluation.verdict = "NEEDS_MINOR_IMPROVEMENT"
    /\ ~last_critique.evaluation.rework_required
    /\ last_critique.action = "REWORK"
    /\ last_critique.critique.decision = "ACCEPT"

\* C37: a write on a manager that holds a durable store succeeds exactly
\* when the durable save succeeds: the save is attempted whatever happens to
\* the ephemeral and vector tiers, and a write whose durable save raised
\* reports failure instead of returning the entry id.
C37_WriteSucceedsIffDurable ==
    (last_write.result # "none" /\ memory_stores.postgres) =>
        /\ "postgres.save" \in last_write.called
        /\ last_write.result = "entry.id" <=> last_write.durable = "saved"

\* the part of C37 about the isolation of the tiers
DurableAlwaysAttempted ==
    (last_write.result # "none" /\ memory_stores.postgres) =>
        /\ "postgres.save" \in last_write.called
        /\ "postgres.save" \notin last_write.fails => last_write.durable = "saved"

\* the updates published since the subscribe_to_task call started
PublishedSinceSubscribe == entries_after(stream, subscriber.started_after)

\* C40: the subscriber is yielded the updates published after its
\* subscribe_to_task call started, each once and in publish order with none
\* passed over: what it has been yielded is always a prefix of them.
C40_SubscriberMissesNothing ==
    subscriber.pc # "idle" =>
        /\ Len(subscriber.yielded) <= Len(PublishedSinceSubscribe)
        /\ subscriber.yielded =
             SubSeq(PublishedSinceSubscribe, 1, Len(subscriber.yielded))

\* C38: once delete_task has removed a task it found in_progress,
\* validating or debating, neither tasks_store nor Orchestrator.task_agents
\* holds the task id, then and in every later state of the draining run.
C38_DeletedTaskLeavesNoAgents ==
    (del_pc \in {"store_delete", "returned"} /\ deleted_while \in RunningStatuses) =>
        /\ TaskId \notin tasks_store
        /\ TaskId \notin DOMAIN task_agents

\* the part of C38 about tasks_store
DeletedTaskLeavesStore ==
    (del_pc \in {"store_delete", "returned"} /\ deleted_while \in RunningStatuses) =>
        TaskId \notin tasks_store

\* C39: in a completed task every agent's latest supervisor critique is
\* ACCEPT or the agent's subtask has rework_count = 2; and a task is failed
\* only when a step of its run raised, never because a REWORK or REJECT
\* critique remained.
C39_CompletedAcceptedOrExhausted ==
    /\ task.status = "completed" =>
          \A i \in Slots :
              \/ supervisor_critiques[i].decision = "ACCEPT"
              \/ task.subtasks[i].rework_count = 2
    /\ task.status = "failed" => RaisedSomewhere

\* a completed task with one agent accepted at once and one still rejected
\* after its two reworks
C39_Witness ==
    /\ pc = "finished"
    /\ task.status = "completed"
    /\ \E i \in Slots : /\ supervisor_critiques[i].decision = "REJECT"
                        /\ task.subtasks[i].rework_count = 2
    /\ \E i \in Slots : /\ supervisor_critiques[i].decision = "ACCEPT"
                        /\ task.subtasks[i].rework_count = 0

====
